---- MODULE Spec2Model ----
(***************************************************************************)
(* Champions Express: the club / player / statistics services over the     *)
(* relational store (SQLite through Prisma).                               *)
(*                                                                         *)
(* The store is three tables with their constraints (unique club name,     *)
(* foreign keys with ON DELETE CASCADE, unique statistics.playerId) and    *)
(* the three AUTOINCREMENT sequences.  Every repository and service method *)
(* is an operator from a store `db` and its arguments to an outcome: the   *)
(* result the caller sees and the store the call leaves.  An action        *)
(* applies one service call to the current store.                          *)
(***************************************************************************)
EXTENDS Integers, Sequences, FiniteSets, TLC

(***************************************************************************)
(* Bounds of the model.                                                    *)
(***************************************************************************)
\* number of club rows ever inserted (AUTOINCREMENT never reuses an id)
MaxClubs == 2
\* number of player rows ever inserted
MaxPlayers == 2
\* number of requests in flight at once
MaxRequests == 2
\* the players of a store whose statistics are reported
MaxReportPlayers == 4
\* the records of the seed files clubs.json and players.json
MaxSeedClubs == 2
MaxSeedPlayers == 4

(***************************************************************************)
(* Strings are sequences of characters; String.prototype.trim removes the  *)
(* white space at both ends and nothing else.                              *)
(***************************************************************************)
isSpace(c) == c = " "

RECURSIVE trimStart(_)
trimStart(s) ==
  IF s = <<>> THEN <<>>
  ELSE IF isSpace(Head(s)) THEN trimStart(Tail(s)) ELSE s

RECURSIVE trimEnd(_)
trimEnd(s) ==
  IF s = <<>> THEN <<>>
  ELSE IF isSpace(s[Len(s)]) THEN trimEnd(SubSeq(s, 1, Len(s) - 1)) ELSE s

trim(s) == trimEnd(trimStart(s))

\* the seven score columns of the statistics table
Fields ==
  {"overall", "pace", "shooting", "passing", "dribbling", "defending", "physical"}

VARIABLES
  clubs,          \* table clubs: rows [id, name]
  players,        \* table players: rows [id, name, nationality, position, clubId]
  statistics,     \* table statistics: rows [id, playerId] plus the seven scores
  seqClubs,       \* sqlite_sequence of clubs: the last id given out
  seqPlayers,     \* sqlite_sequence of players
  seqStatistics,  \* sqlite_sequence of statistics
  last,           \* the last service call: [op, res]
  requests,       \* the HTTP requests being handled at once, one per slot
  server          \* the server process: where startServer has got to

vars ==
  <<clubs, players, statistics, seqClubs, seqPlayers, seqStatistics, last,
    requests, server>>

\* the store as one value
DB ==
  [clubs |-> clubs, players |-> players, statistics |-> statistics,
   seqClubs |-> seqClubs, seqPlayers |-> seqPlayers,
   seqStatistics |-> seqStatistics]

(***************************************************************************)
(* What a call gives back to its caller: it throws an Error with a         *)
(* message (or a Prisma error with its code), or it returns null, an       *)
(* entity with its relations, or a boolean.                                *)
(***************************************************************************)
Threw(msg) == [status |-> "threw", error |-> msg, value |-> {}]
Null == [status |-> "null", error |-> "", value |-> {}]
Entity(row) == [status |-> "entity", error |-> "", value |-> {row}]
Bool(b) == [status |-> IF b THEN "true" ELSE "false", error |-> "", value |-> {}]

\* the server process: the await startServer has reached (pc), the index of
\* the seed record at hand (i), the club and the player the seeding has just
\* read and written, and the tables the run found filled
Process(pc, i, clubId, playerId, skipped) ==
  [pc |-> pc, i |-> i, clubId |-> clubId, playerId |-> playerId,
   skipped |-> skipped]
Stopped == Process("stopped", 0, 0, 0, {})

\* an outcome: the result, and the store the call leaves
Out(res, db) == [res |-> res, db |-> db]

(***************************************************************************)
(* include: { players: { include: { statistics: true } } } and             *)
(* include: { club: true, statistics: true }                               *)
(***************************************************************************)
statisticsOf(db, playerId) == {s \in db.statistics : s.playerId = playerId}
playersOf(db, clubId) == {p \in db.players : p.clubId = clubId}

playerWithStatistics(db, p) ==
  [id |-> p.id, name |-> p.name, nationality |-> p.nationality,
   position |-> p.position, clubId |-> p.clubId,
   statistics |-> statisticsOf(db, p.id)]

clubWithRelations(db, c) ==
  [id |-> c.id, name |-> c.name,
   players |-> {playerWithStatistics(db, p) : p \in playersOf(db, c.id)}]

playerWithRelations(db, p) ==
  [id |-> p.id, name |-> p.name, nationality |-> p.nationality,
   position |-> p.position, clubId |-> p.clubId,
   club |-> {c \in db.clubs : c.id = p.clubId},
   statistics |-> statisticsOf(db, p.id)]

(***************************************************************************)
(* The constraints of the schema                                           *)
(***************************************************************************)
\* faulty variant: the unique index compares without regard to letter case, as a
\* NOCASE collation does
clubs_name_key_nocase(db, id, name) ==
  LET lower(s) == [i \in 1 .. Len(s) |-> IF s[i] = "A" THEN "a" ELSE s[i]]
  IN \A c \in db.clubs : c.id = id \/ lower(c.name) # lower(name)

\* CREATE UNIQUE INDEX clubs_name_key: the row `id` may not take `name`
\* while another row holds it (TEXT compares byte for byte: case matters)
clubs_name_key(db, id, name) == \A c \in db.clubs : c.id = id \/ c.name # name

\* players_clubId_fkey: clubId must be the id of a club
players_clubId_fkey(db, clubId) == \E c \in db.clubs : c.id = clubId

(***************************************************************************)
(* ClubsRepository                                                         *)
(***************************************************************************)
\* findUnique({ where: { id } }): the rows with that id (none: null)
ClubsRepository_findById(db, id) ==
  {clubWithRelations(db, c) : c \in {r \in db.clubs : r.id = id}}

\* findFirst({ where: { name } })
ClubsRepository_findByName(db, name) ==
  {clubWithRelations(db, c) : c \in {r \in db.clubs : r.name = name}}

\* prisma.club.create: the unique index rejects a taken name
ClubsRepository_create(db, data) ==
  IF ~clubs_name_key(db, db.seqClubs + 1, data.name)
    THEN Out(Threw("P2002"), db)
    ELSE LET row == [id |-> db.seqClubs + 1, name |-> data.name]
             after == [db EXCEPT !.clubs = @ \cup {row}, !.seqClubs = @ + 1]
         IN Out(Entity(clubWithRelations(after, row)), after)

\* prisma.club.update inside try/catch: any storage error becomes null
ClubsRepository_update(db, id, data) ==
  LET found == {c \in db.clubs : c.id = id} IN
  IF found = {} THEN Out(Null, db)
  ELSE IF "name" \notin DOMAIN data
    THEN Out(Entity(clubWithRelations(db, CHOOSE c \in found : TRUE)), db)
  ELSE IF ~clubs_name_key(db, id, data.name)
    THEN Out(Null, db)
  ELSE LET row == [id |-> id, name |-> data.name]
           after == [db EXCEPT !.clubs = (@ \ found) \cup {row}]
       IN Out(Entity(clubWithRelations(after, row)), after)

\* prisma.club.delete inside try/catch; players_clubId_fkey and
\* statistics_playerId_fkey are ON DELETE CASCADE
ClubsRepository_delete(db, id) ==
  LET found == {c \in db.clubs : c.id = id}
      gone == playersOf(db, id)
  IN IF found = {} THEN Out(Bool(FALSE), db)
     ELSE Out(Bool(TRUE),
              [db EXCEPT !.clubs = @ \ found,
                         !.players = @ \ gone,
                         !.statistics =
                           {s \in @ : \A p \in gone : s.playerId # p.id}])

(***************************************************************************)
(* ClubsService                                                            *)
(***************************************************************************)
getClubById(db, id) ==
  IF id <= 0 THEN Threw("Falha ao buscar clube")
  ELSE LET found == ClubsRepository_findById(db, id)
       IN IF found = {} THEN Null ELSE Entity(CHOOSE c \in found : TRUE)

\* faulty variant: the duplicate check looks the name up as given, not trimmed
createClub_lookupUntrimmed(db, data) ==
  IF data.name = <<>> \/ trim(data.name) = <<>>
    THEN Out(Threw("Nome do clube e obrigatorio"), db)
  ELSE IF ClubsRepository_findByName(db, data.name) # {}
    THEN Out(Threw("Ja existe um clube com este nome"), db)
  ELSE ClubsRepository_create(db, [name |-> trim(data.name)])

createClub(db, data) ==
  IF data.name = <<>> \/ trim(data.name) = <<>>
    THEN Out(Threw("Nome do clube e obrigatorio"), db)
  ELSE IF ClubsRepository_findByName(db, trim(data.name)) # {}
    THEN Out(Threw("Ja existe um clube com este nome"), db)
  ELSE ClubsRepository_create(db, [name |-> trim(data.name)])

updateClub(db, id, data) ==
  IF id <= 0 THEN Out(Threw("ID do clube invalido"), db)
  ELSE IF "name" \in DOMAIN data /\ trim(data.name) = <<>>
    THEN Out(Threw("Nome do clube nao pode estar vazio"), db)
  ELSE LET existingClub == ClubsRepository_findById(db, id) IN
    IF existingClub = {} THEN Out(Threw("Clube nao encontrado"), db)
    ELSE IF /\ "name" \in DOMAIN data
            /\ data.name # <<>>
            /\ \E c \in existingClub : data.name # c.name
            /\ ClubsRepository_findByName(db, trim(data.name)) # {}
      THEN Out(Threw("Ja existe um clube com este nome"), db)
    ELSE ClubsRepository_update(
           db, id,
           [f \in DOMAIN data |-> IF f = "name" THEN trim(data.name) ELSE data[f]])

\* faulty variant: no check that the club has no players
deleteClub_noPlayersCheck(db, id) ==
  IF id <= 0 THEN Out(Threw("ID do clube invalido"), db)
  ELSE LET existingClub == ClubsRepository_findById(db, id) IN
    IF existingClub = {} THEN Out(Threw("Clube nao encontrado"), db)
    ELSE ClubsRepository_delete(db, id)

deleteClub(db, id) ==
  IF id <= 0 THEN Out(Threw("ID do clube invalido"), db)
  ELSE LET existingClub == ClubsRepository_findById(db, id) IN
    IF existingClub = {} THEN Out(Threw("Clube nao encontrado"), db)
    ELSE IF \E c \in existingClub : c.players # {}
      THEN Out(Threw("Nao e possivel remover um clube que possui jogadores"), db)
    ELSE ClubsRepository_delete(db, id)

(***************************************************************************)
(* PlayersRepository                                                       *)
(***************************************************************************)
PlayersRepository_findById(db, id) ==
  {playerWithRelations(db, p) : p \in {r \in db.players : r.id = id}}

\* one statistics row from a payload of the seven scores
statisticsRow(id, playerId, payload) ==
  [f \in Fields \cup {"id", "playerId"} |->
     IF f = "id" THEN id ELSE IF f = "playerId" THEN playerId ELSE payload[f]]

\* faulty variant: the player and its statistics are written one after the
\* other, outside a transaction, and the second write is lost
PlayersRepository_create_separateWrites(db, data) ==
  IF ~players_clubId_fkey(db, data.clubId)
    THEN Out(Threw("P2003"), db)
  ELSE
    LET row == [id |-> db.seqPlayers + 1, name |-> data.name,
                nationality |-> data.nationality, position |-> data.position,
                clubId |-> data.clubId]
        after == [db EXCEPT !.players = @ \cup {row}, !.seqPlayers = @ + 1]
    IN IF "statistics" \in DOMAIN data
         THEN Out(Threw("statistics insert failed"), after)
         ELSE Out(Entity(playerWithRelations(after, row)), after)

\* faulty variant: the insert does not check the foreign key
PlayersRepository_create_noForeignKey(db, data) ==
  LET row == [id |-> db.seqPlayers + 1, name |-> data.name,
              nationality |-> data.nationality, position |-> data.position,
              clubId |-> data.clubId]
      stats == IF "statistics" \in DOMAIN data
                 THEN {statisticsRow(db.seqStatistics + 1, row.id, data.statistics)}
                 ELSE {}
      after == [db EXCEPT !.players = @ \cup {row},
                          !.seqPlayers = @ + 1,
                          !.statistics = @ \cup stats,
                          !.seqStatistics = @ + Cardinality(stats)]
  IN Out(Entity(playerWithRelations(after, row)), after)

\* prisma.player.create with the nested statistics create: one transaction;
\* the foreign key rejects a clubId that is no club's id
PlayersRepository_create(db, data) ==
  IF ~players_clubId_fkey(db, data.clubId)
    THEN Out(Threw("P2003"), db)
  ELSE
    LET row == [id |-> db.seqPlayers + 1, name |-> data.name,
                nationality |-> data.nationality, position |-> data.position,
                clubId |-> data.clubId]
        stats == IF "statistics" \in DOMAIN data
                   THEN {statisticsRow(db.seqStatistics + 1, row.id, data.statistics)}
                   ELSE {}
        after == [db EXCEPT !.players = @ \cup {row},
                            !.seqPlayers = @ + 1,
                            !.statistics = @ \cup stats,
                            !.seqStatistics = @ + Cardinality(stats)]
    IN Out(Entity(playerWithRelations(after, row)), after)

\* faulty variant: the texts that are not supplied are blanked
PlayersRepository_update_replace(db, id, data) ==
  LET found == {p \in db.players : p.id = id} IN
  IF found = {} THEN Out(Null, db)
  ELSE IF "clubId" \in DOMAIN data /\ ~players_clubId_fkey(db, data.clubId)
    THEN Out(Null, db)
  ELSE
    LET old == CHOOSE p \in found : TRUE
        row == [f \in DOMAIN old |->
                  IF f \in DOMAIN data THEN data[f]
                  ELSE IF f \in {"id", "clubId"} THEN old[f] ELSE <<>>]
        after == [db EXCEPT !.players = (@ \ found) \cup {row}]
    IN Out(Entity(playerWithRelations(after, row)), after)

\* faulty variant: the update does not check the foreign key
PlayersRepository_update_noForeignKey(db, id, data) ==
  LET found == {p \in db.players : p.id = id} IN
  IF found = {} THEN Out(Null, db)
  ELSE
    LET old == CHOOSE p \in found : TRUE
        row == [f \in DOMAIN old |-> IF f \in DOMAIN data THEN data[f] ELSE old[f]]
        after == [db EXCEPT !.players = (@ \ found) \cup {row}]
    IN Out(Entity(playerWithRelations(after, row)), after)

\* prisma.player.update inside try/catch: a missing row (P2025) and a
\* clubId that is no club's id (P2003) both become null
PlayersRepository_update(db, id, data) ==
  LET found == {p \in db.players : p.id = id} IN
  IF found = {} THEN Out(Null, db)
  ELSE IF "clubId" \in DOMAIN data /\ ~players_clubId_fkey(db, data.clubId)
    THEN Out(Null, db)
  ELSE
    LET old == CHOOSE p \in found : TRUE
        row == [f \in DOMAIN old |-> IF f \in DOMAIN data THEN data[f] ELSE old[f]]
        after == [db EXCEPT !.players = (@ \ found) \cup {row}]
    IN Out(Entity(playerWithRelations(after, row)), after)

\* faulty variant: the scores that are not supplied are reset to 0
PlayersRepository_updateStatistics_replace(db, playerId, data) ==
  LET found == statisticsOf(db, playerId) IN
  IF found = {} THEN Out(Null, db)
  ELSE
    LET old == CHOOSE s \in found : TRUE
        row == [f \in DOMAIN old |->
                  IF f \in DOMAIN data THEN data[f]
                  ELSE IF f \in Fields THEN 0 ELSE old[f]]
    IN Out(Entity(row), [db EXCEPT !.statistics = (@ \ found) \cup {row}])

\* prisma.statistics.update({ where: { playerId }, data }) inside try/catch
PlayersRepository_updateStatistics(db, playerId, data) ==
  LET found == statisticsOf(db, playerId) IN
  IF found = {} THEN Out(Null, db)
  ELSE
    LET old == CHOOSE s \in found : TRUE
        row == [f \in DOMAIN old |-> IF f \in DOMAIN data THEN data[f] ELSE old[f]]
    IN Out(Entity(row), [db EXCEPT !.statistics = (@ \ found) \cup {row}])

\* faulty variant: the delete does not cascade to the statistics row
PlayersRepository_delete_noCascade(db, id) ==
  LET found == {p \in db.players : p.id = id} IN
  IF found = {} THEN Out(Bool(FALSE), db)
  ELSE Out(Bool(TRUE), [db EXCEPT !.players = @ \ found])

\* prisma.player.delete inside try/catch; statistics_playerId_fkey is
\* ON DELETE CASCADE
PlayersRepository_delete(db, id) ==
  LET found == {p \in db.players : p.id = id} IN
  IF found = {} THEN Out(Bool(FALSE), db)
  ELSE Out(Bool(TRUE),
           [db EXCEPT !.players = @ \ found,
                      !.statistics = {s \in @ : s.playerId # id}])

(***************************************************************************)
(* PlayersService                                                          *)
(***************************************************************************)
\* faulty variant: no lower end of the range
validRange_noLowerBound(value) == value <= 100

validRange(value) == value >= 0 /\ value <= 100

getPlayerById(db, id) ==
  IF id <= 0 THEN Threw("Falha ao buscar jogador")
  ELSE LET found == PlayersRepository_findById(db, id)
       IN IF found = {} THEN Null ELSE Entity(CHOOSE p \in found : TRUE)

\* faulty variant: physical is left out of the range check
createPlayer_physicalUnchecked(db, data) ==
  IF data.name = <<>> \/ trim(data.name) = <<>>
    THEN Out(Threw("Nome do jogador e obrigatorio"), db)
  ELSE IF data.nationality = <<>> \/ trim(data.nationality) = <<>>
    THEN Out(Threw("Nacionalidade do jogador e obrigatoria"), db)
  ELSE IF data.position = <<>> \/ trim(data.position) = <<>>
    THEN Out(Threw("Posicao do jogador e obrigatoria"), db)
  ELSE IF data.clubId = 0 \/ data.clubId <= 0
    THEN Out(Threw("ID do clube e obrigatorio"), db)
  ELSE IF /\ "statistics" \in DOMAIN data
          /\ \/ ~validRange(data.statistics.overall)
             \/ ~validRange(data.statistics.pace)
             \/ ~validRange(data.statistics.shooting)
             \/ ~validRange(data.statistics.passing)
             \/ ~validRange(data.statistics.dribbling)
             \/ ~validRange(data.statistics.defending)
    THEN Out(Threw("As estatisticas devem estar entre 0 e 100"), db)
  ELSE PlayersRepository_create(
         db,
         [f \in DOMAIN data |->
            IF f \in {"name", "nationality", "position"} THEN trim(data[f])
            ELSE data[f]])

\* faulty variant: the texts are stored as given, not trimmed
createPlayer_untrimmed(db, data) ==
  IF data.name = <<>> \/ trim(data.name) = <<>>
    THEN Out(Threw("Nome do jogador e obrigatorio"), db)
  ELSE IF data.nationality = <<>> \/ trim(data.nationality) = <<>>
    THEN Out(Threw("Nacionalidade do jogador e obrigatoria"), db)
  ELSE IF data.position = <<>> \/ trim(data.position) = <<>>
    THEN Out(Threw("Posicao do jogador e obrigatoria"), db)
  ELSE IF data.clubId = 0 \/ data.clubId <= 0
    THEN Out(Threw("ID do clube e obrigatorio"), db)
  ELSE IF /\ "statistics" \in DOMAIN data
          /\ \E f \in Fields : ~validRange(data.statistics[f])
    THEN Out(Threw("As estatisticas devem estar entre 0 e 100"), db)
  ELSE PlayersRepository_create(db, data)

createPlayer(db, data) ==
  IF data.name = <<>> \/ trim(data.name) = <<>>
    THEN Out(Threw("Nome do jogador e obrigatorio"), db)
  ELSE IF data.nationality = <<>> \/ trim(data.nationality) = <<>>
    THEN Out(Threw("Nacionalidade do jogador e obrigatoria"), db)
  ELSE IF data.position = <<>> \/ trim(data.position) = <<>>
    THEN Out(Threw("Posicao do jogador e obrigatoria"), db)
  ELSE IF data.clubId = 0 \/ data.clubId <= 0
    THEN Out(Threw("ID do clube e obrigatorio"), db)
  ELSE IF /\ "statistics" \in DOMAIN data
          /\ \/ ~validRange(data.statistics.overall)
             \/ ~validRange(data.statistics.pace)
             \/ ~validRange(data.statistics.shooting)
             \/ ~validRange(data.statistics.passing)
             \/ ~validRange(data.statistics.dribbling)
             \/ ~validRange(data.statistics.defending)
             \/ ~validRange(data.statistics.physical)
    THEN Out(Threw("As estatisticas devem estar entre 0 e 100"), db)
  ELSE PlayersRepository_create(
         db,
         [f \in DOMAIN data |->
            IF f \in {"name", "nationality", "position"} THEN trim(data[f])
            ELSE data[f]])

\* faulty variant: the texts are stored as supplied (the service of
\* src/unnamed/part_000, which checks the id alone)
updatePlayer_unvalidated(db, id, data) ==
  IF id <= 0 THEN Out(Threw("ID do jogador invalido"), db)
  ELSE PlayersRepository_update(db, id, data)

updatePlayer(db, id, data) ==
  IF id <= 0 THEN Out(Threw("ID do jogador invalido"), db)
  ELSE IF "name" \in DOMAIN data /\ trim(data.name) = <<>>
    THEN Out(Threw("Nome do jogador nao pode estar vazio"), db)
  ELSE IF "nationality" \in DOMAIN data /\ trim(data.nationality) = <<>>
    THEN Out(Threw("Nacionalidade do jogador nao pode estar vazia"), db)
  ELSE IF "position" \in DOMAIN data /\ trim(data.position) = <<>>
    THEN Out(Threw("Posicao do jogador nao pode estar vazia"), db)
  ELSE PlayersRepository_update(
         db, id,
         [f \in DOMAIN data |->
            IF f \in {"name", "nationality", "position"} THEN trim(data[f])
            ELSE data[f]])

\* faulty variant: a missing row is created (an upsert) from the supplied scores
updatePlayerStatistics_upsert(db, playerId, data) ==
  IF playerId <= 0 THEN Out(Threw("ID do jogador invalido"), db)
  ELSE IF \E f \in DOMAIN data : ~validRange(data[f])
    THEN Out(Threw("As estatisticas devem estar entre 0 e 100"), db)
  ELSE IF statisticsOf(db, playerId) = {}
    THEN Out(Bool(TRUE),
             [db EXCEPT
                !.statistics =
                  @ \cup {statisticsRow(db.seqStatistics + 1, playerId,
                                        [f \in Fields |->
                                           IF f \in DOMAIN data THEN data[f] ELSE 0])},
                !.seqStatistics = @ + 1])
  ELSE LET result == PlayersRepository_updateStatistics(db, playerId, data)
       IN Out(Bool(result.res.status # "null"), result.db)

updatePlayerStatistics(db, playerId, data) ==
  IF playerId <= 0 THEN Out(Threw("ID do jogador invalido"), db)
  ELSE IF \E f \in DOMAIN data : ~validRange(data[f])
    THEN Out(Threw("As estatisticas devem estar entre 0 e 100"), db)
  ELSE LET result == PlayersRepository_updateStatistics(db, playerId, data)
       IN Out(Bool(result.res.status # "null"), result.db)

deletePlayer(db, id) ==
  IF id <= 0 THEN Out(Threw("ID do jogador invalido"), db)
  ELSE PlayersRepository_delete(db, id)

(***************************************************************************)
(* The reads that return lists                                             *)
(***************************************************************************)
\* a list of rows (its order is the storage's and is not modelled)
List(rows) == [status |-> "list", error |-> "", value |-> rows]

\* prisma.player.findMany({ include })
PlayersRepository_findAll(db) ==
  {playerWithRelations(db, p) : p \in db.players}

\* `where` gets a condition only for a filter that is truthy: a number that
\* is not 0, a text that is not empty; where.statistics selects the players
\* whose statistics row satisfies the condition
PlayersRepository_findWithFilters(db, filters) ==
  LET number(f) == f \in DOMAIN filters /\ filters[f] # 0
      text(f) == f \in DOMAIN filters /\ filters[f] # <<>>
  IN {playerWithRelations(db, p) : p \in
        {r \in db.players :
           /\ number("clubId") => r.clubId = filters.clubId
           /\ text("position") => r.position = filters.position
           /\ text("nationality") => r.nationality = filters.nationality
           /\ number("minOverall") =>
                \E st \in statisticsOf(db, r.id) : st.overall >= filters.minOverall
           /\ number("maxOverall") =>
                \E st \in statisticsOf(db, r.id) : st.overall <= filters.maxOverall}}

getAllPlayers(db) == List(PlayersRepository_findAll(db))

getPlayersWithFilters(db, filters) ==
  IF "clubId" \in DOMAIN filters /\ filters.clubId <= 0
    THEN Threw("ID do clube invalido")
  ELSE IF "minOverall" \in DOMAIN filters
          /\ (filters.minOverall < 0 \/ filters.minOverall > 100)
    THEN Threw("Overall minimo deve estar entre 0 e 100")
  ELSE IF "maxOverall" \in DOMAIN filters
          /\ (filters.maxOverall < 0 \/ filters.maxOverall > 100)
    THEN Threw("Overall maximo deve estar entre 0 e 100")
  ELSE IF /\ "minOverall" \in DOMAIN filters
          /\ "maxOverall" \in DOMAIN filters
          /\ filters.minOverall > filters.maxOverall
    THEN Threw("Overall minimo nao pode ser maior que o maximo")
  ELSE List(PlayersRepository_findWithFilters(db, filters))

(***************************************************************************)
(* The controllers: a request is answered with a status code               *)
(***************************************************************************)
HttpResponse(statusCode, message, data) ==
  [status |-> "response", error |-> message, value |-> data,
   statusCode |-> statusCode]

ok(data) == HttpResponse(200, "", data)
created(data) == HttpResponse(201, "", data)
badRequest(message) == HttpResponse(400, message, {})
notFound(message) == HttpResponse(404, message, {})
serverError == HttpResponse(500, "Erro interno do servidor", {})

\* faulty variant: only the errors the services throw themselves are taken
\* for an Error, the Prisma client's are not
instanceofError_notPrisma(res) ==
  res.status = "threw" /\ res.error \notin {"P2002", "P2003"}

\* error instanceof Error: an Error the services throw, or an error of the
\* Prisma client, which extends Error
instanceofError(res) == res.status = "threw"

\* catch (error) of create, update and delete, in both controllers
catch(o) ==
  IF instanceofError(o.res) THEN Out(badRequest(o.res.error), o.db)
  ELSE Out(serverError, o.db)

\* POST /clubs
ClubsController_create(db, body) ==
  IF "name" \notin DOMAIN body \/ body.name = <<>> \/ trim(body.name) = <<>>
    THEN Out(badRequest("Nome do clube e obrigatorio"), db)
  ELSE LET o == createClub(db, [name |-> trim(body.name)]) IN
    IF o.res.status = "threw" THEN catch(o)
    ELSE Out(created(o.res.value), o.db)

\* PUT /clubs/:id
ClubsController_update(db, id, body) ==
  IF id <= 0 THEN Out(badRequest("ID do clube invalido"), db)
  ELSE IF "name" \in DOMAIN body /\ trim(body.name) = <<>>
    THEN Out(badRequest("Nome do clube nao pode estar vazio"), db)
  ELSE LET o == updateClub(db, id,
                           [f \in DOMAIN body |->
                              IF f = "name" THEN trim(body.name) ELSE body[f]])
       IN IF o.res.status = "threw" THEN catch(o)
          ELSE IF o.res = Null THEN Out(notFound("Clube nao encontrado"), o.db)
          ELSE Out(ok(o.res.value), o.db)

\* DELETE /clubs/:id
ClubsController_delete(db, id) ==
  IF id <= 0 THEN Out(badRequest("ID do clube invalido"), db)
  ELSE LET o == deleteClub(db, id) IN
    IF o.res.status = "threw" THEN catch(o)
    ELSE IF o.res = Bool(FALSE) THEN Out(notFound("Clube nao encontrado"), o.db)
    ELSE Out(ok({}), o.db)

\* POST /players
PlayersController_create(db, body) ==
  IF "name" \notin DOMAIN body \/ body.name = <<>> \/ trim(body.name) = <<>>
    THEN Out(badRequest("Nome do jogador e obrigatorio"), db)
  ELSE IF \/ "nationality" \notin DOMAIN body
          \/ body.nationality = <<>> \/ trim(body.nationality) = <<>>
    THEN Out(badRequest("Nacionalidade do jogador e obrigatoria"), db)
  ELSE IF \/ "position" \notin DOMAIN body
          \/ body.position = <<>> \/ trim(body.position) = <<>>
    THEN Out(badRequest("Posicao do jogador e obrigatoria"), db)
  ELSE IF "clubId" \notin DOMAIN body \/ body.clubId = 0 \/ body.clubId <= 0
    THEN Out(badRequest("ID do clube e obrigatorio e deve ser um numero valido"),
             db)
  ELSE LET o == createPlayer(
                  db,
                  [f \in DOMAIN body |->
                     IF f \in {"name", "nationality", "position"}
                       THEN trim(body[f]) ELSE body[f]])
       IN IF o.res.status = "threw" THEN catch(o)
          ELSE Out(created(o.res.value), o.db)

\* faulty variant: clubId is passed on without a check
PlayersController_update_clubIdUnchecked(db, id, body) ==
  IF id <= 0 THEN Out(badRequest("ID do jogador invalido"), db)
  ELSE IF "name" \in DOMAIN body /\ trim(body.name) = <<>>
    THEN Out(badRequest("Nome do jogador nao pode estar vazio"), db)
  ELSE IF "nationality" \in DOMAIN body /\ trim(body.nationality) = <<>>
    THEN Out(badRequest("Nacionalidade do jogador nao pode estar vazia"), db)
  ELSE IF "position" \in DOMAIN body /\ trim(body.position) = <<>>
    THEN Out(badRequest("Posicao do jogador nao pode estar vazia"), db)
  ELSE LET o == updatePlayer(
                  db, id,
                  [f \in DOMAIN body |->
                     IF f = "clubId" THEN body[f] ELSE trim(body[f])])
       IN IF o.res.status = "threw" THEN catch(o)
          ELSE IF o.res = Null THEN Out(notFound("Jogador nao encontrado"), o.db)
          ELSE Out(ok(o.res.value), o.db)

\* PUT /players/:id
PlayersController_update(db, id, body) ==
  IF id <= 0 THEN Out(badRequest("ID do jogador invalido"), db)
  ELSE IF "name" \in DOMAIN body /\ trim(body.name) = <<>>
    THEN Out(badRequest("Nome do jogador nao pode estar vazio"), db)
  ELSE IF "nationality" \in DOMAIN body /\ trim(body.nationality) = <<>>
    THEN Out(badRequest("Nacionalidade do jogador nao pode estar vazia"), db)
  ELSE IF "position" \in DOMAIN body /\ trim(body.position) = <<>>
    THEN Out(badRequest("Posicao do jogador nao pode estar vazia"), db)
  ELSE IF "clubId" \in DOMAIN body /\ body.clubId <= 0
    THEN Out(badRequest("ID do clube deve ser um numero valido"), db)
  ELSE LET o == updatePlayer(
                  db, id,
                  [f \in DOMAIN body |->
                     IF f = "clubId" THEN body[f] ELSE trim(body[f])])
       IN IF o.res.status = "threw" THEN catch(o)
          ELSE IF o.res = Null THEN Out(notFound("Jogador nao encontrado"), o.db)
          ELSE Out(ok(o.res.value), o.db)

(***************************************************************************)
(* One service call as a step: the store becomes what the call left and    *)
(* `last` records the call and its result.                                 *)
(***************************************************************************)
Apply(op, o) ==
  /\ o.db.seqClubs <= MaxClubs
  /\ o.db.seqPlayers <= MaxPlayers
  /\ clubs' = o.db.clubs
  /\ players' = o.db.players
  /\ statistics' = o.db.statistics
  /\ seqClubs' = o.db.seqClubs
  /\ seqPlayers' = o.db.seqPlayers
  /\ seqStatistics' = o.db.seqStatistics
  /\ last' = [op |-> op, res |-> o.res]
  /\ requests' = requests
  /\ server' = server

CreateClub(data) == Apply("createClub", createClub(DB, data))
UpdateClub(id, data) == Apply("updateClub", updateClub(DB, id, data))
DeleteClub(id) == Apply("deleteClub", deleteClub(DB, id))
CreatePlayer(data) == Apply("createPlayer", createPlayer(DB, data))
UpdatePlayer(id, data) == Apply("updatePlayer", updatePlayer(DB, id, data))
UpdatePlayerStatistics(playerId, data) ==
  Apply("updatePlayerStatistics", updatePlayerStatistics(DB, playerId, data))
PutPlayer(id, body) ==
  Apply("PUT /players/:id", PlayersController_update(DB, id, body))
DeletePlayer(id) == Apply("deletePlayer", deletePlayer(DB, id))

(***************************************************************************)
(* Requests handled at once.  A handler runs to its next await of the      *)
(* storage in one step; each storage call is one step, and the steps of    *)
(* the requests in flight interleave.  A request in flight is              *)
(* [op, pc, id, clubId, name]: its route, the storage call it is about to  *)
(* make, and its arguments.  Once answered, `last` holds the route and     *)
(* the response, and the slot is free for the next request.                *)
(***************************************************************************)
Request(op, pc, id, clubId, name) ==
  [op |-> op, pc |-> pc, id |-> id, clubId |-> clubId, name |-> name]

Idle == Request("none", "idle", 0, 0, <<>>)

\* createClub up to its look-up of the name: what it throws, or null when
\* it goes on to the insert
createClub_findByName(db, data) ==
  IF data.name = <<>> \/ trim(data.name) = <<>>
    THEN Threw("Nome do clube e obrigatorio")
  ELSE IF ClubsRepository_findByName(db, trim(data.name)) # {}
    THEN Threw("Ja existe um clube com este nome")
  ELSE Null

\* createClub from the insert on
createClub_create(db, data) ==
  ClubsRepository_create(db, [name |-> trim(data.name)])

\* deleteClub up to its look-up of the club and the club's players
deleteClub_findById(db, id) ==
  IF id <= 0 THEN Threw("ID do clube invalido")
  ELSE LET existingClub == ClubsRepository_findById(db, id) IN
    IF existingClub = {} THEN Threw("Clube nao encontrado")
    ELSE IF \E c \in existingClub : c.players # {}
      THEN Threw("Nao e possivel remover um clube que possui jogadores")
    ELSE Null

\* deleteClub from the delete on
deleteClub_delete(db, id) == ClubsRepository_delete(db, id)

\* the body of POST /players and of PUT /players/:id that a request stands for
PostPlayersBody(request) ==
  [name |-> <<" ", "a">>, nationality |-> <<"A", " ">>,
   position |-> <<" ", "a", " ">>, clubId |-> request.clubId,
   statistics |->
     [overall |-> 88, pace |-> 100, shooting |-> 79, passing |-> 74,
      dribbling |-> 90, defending |-> 0, physical |-> 64]]
PutPlayersBody(request) == ("clubId" :> request.clubId)

\* one step of the request in slot r: the store becomes what the storage
\* call left
Step(r, db, request, answer) ==
  /\ db.seqClubs <= MaxClubs
  /\ db.seqPlayers <= MaxPlayers
  /\ clubs' = db.clubs
  /\ players' = db.players
  /\ statistics' = db.statistics
  /\ seqClubs' = db.seqClubs
  /\ seqPlayers' = db.seqPlayers
  /\ seqStatistics' = db.seqStatistics
  /\ last' = answer
  /\ requests' = [requests EXCEPT ![r] = request]
  /\ server' = server

\* the request goes on to its next storage call
Continue(r, db, request) == Step(r, db, request, last)

\* res.status(response.statusCode).json(response.body): the request is over
\* (of the body, only the message is kept)
Answer(r, db, response) ==
  Step(r, db, Idle,
       [op |-> requests[r].op, res |-> [response EXCEPT !.value = {}]])

Receive(r, request) ==
  /\ requests[r].pc = "idle"
  /\ Continue(r, DB, request)

\* POST /clubs: the controller's check of the body, then createClub's
\* look-up of the name
PostClubs_findByName(r) ==
  LET request == requests[r]
      thrown == createClub_findByName(DB, [name |-> trim(request.name)])
  IN /\ request.op = "POST /clubs"
     /\ request.pc = "findByName"
     /\ IF trim(request.name) = <<>>
          THEN Answer(r, DB, badRequest("Nome do clube e obrigatorio"))
        ELSE IF thrown.status = "threw"
          THEN Answer(r, DB, catch(Out(thrown, DB)).res)
        ELSE Continue(r, DB, [request EXCEPT !.pc = "create"])

\* the response of POST /clubs to what the insert gave
PostClubs_response(o) ==
  IF o.res.status = "threw" THEN catch(o).res ELSE created(o.res.value)

\* POST /clubs: the insert, and the response
PostClubs_create(r) ==
  LET request == requests[r]
      o == createClub_create(DB, [name |-> trim(request.name)])
  IN /\ request.op = "POST /clubs"
     /\ request.pc = "create"
     /\ Answer(r, o.db, PostClubs_response(o))

\* DELETE /clubs/:id: deleteClub's look-up of the club with its players
DeleteClubs_findById(r) ==
  LET request == requests[r]
      thrown == deleteClub_findById(DB, request.id)
  IN /\ request.op = "DELETE /clubs/:id"
     /\ request.pc = "findById"
     /\ IF thrown.status = "threw"
          THEN Answer(r, DB, catch(Out(thrown, DB)).res)
          ELSE Continue(r, DB, [request EXCEPT !.pc = "delete"])

\* DELETE /clubs/:id: the delete, and the response
DeleteClubs_delete(r) ==
  LET request == requests[r]
      o == deleteClub_delete(DB, request.id)
  IN /\ request.op = "DELETE /clubs/:id"
     /\ request.pc = "delete"
     /\ Answer(r, o.db,
               IF o.res = Bool(FALSE)
                 THEN notFound("Clube nao encontrado") ELSE ok({}))

\* POST /players: one storage call, the nested create
PostPlayers(r) ==
  LET request == requests[r]
      o == PlayersController_create(DB, PostPlayersBody(request))
  IN /\ request.op = "POST /players"
     /\ request.pc = "create"
     /\ Answer(r, o.db, o.res)

\* POST /players when the storage fails at the insert of the statistics row:
\* the nested create is one transaction, the player's insert is rolled back,
\* and the Prisma client's error is answered by the controller's catch
PostPlayers_rolledBack(r) ==
  LET request == requests[r]
  IN /\ request.op = "POST /players"
     /\ request.pc = "create"
     /\ "statistics" \in DOMAIN PostPlayersBody(request)
     /\ players_clubId_fkey(DB, request.clubId)
     /\ Answer(r, DB, catch(Out(Threw("statistics insert failed"), DB)).res)

\* PUT /players/:id: one storage call
PutPlayers(r) ==
  LET request == requests[r]
      o == PlayersController_update(DB, request.id, PutPlayersBody(request))
  IN /\ request.op = "PUT /players/:id"
     /\ request.pc = "update"
     /\ Answer(r, o.db, o.res)

(***************************************************************************)
(* getPlayersStatistics                                                    *)
(***************************************************************************)
Report(value) == [status |-> "report", error |-> "", value |-> value]

\* the rows as findMany without orderBy gives them: in the order of the
\* primary key
RECURSIVE inOrder(_)
inOrder(rows) ==
  IF rows = {} THEN <<>>
  ELSE LET first == CHOOSE r \in rows : \A q \in rows : r.id <= q.id
       IN <<first>> \o inOrder(rows \ {first})

isDigit(c) == c \in {"0", "1", "2", "3", "4", "5", "6", "7", "8", "9"}
digitOf(c) ==
  CASE c = "0" -> 0 [] c = "1" -> 1 [] c = "2" -> 2 [] c = "3" -> 3
    [] c = "4" -> 4 [] c = "5" -> 5 [] c = "6" -> 6 [] c = "7" -> 7
    [] c = "8" -> 8 [] c = "9" -> 9

\* a property key that is an array index: a decimal numeral with no leading
\* zero (the keys here are short, so below 2^32 - 1)
isArrayIndex(key) ==
  /\ key # <<>>
  /\ \A i \in DOMAIN key : isDigit(key[i])
  /\ Len(key) > 1 => key[1] # "0"

RECURSIVE toNumber(_)
toNumber(key) ==
  IF key = <<>> THEN 0
  ELSE 10 * toNumber(SubSeq(key, 1, Len(key) - 1)) + digitOf(key[Len(key)])

\* the keys of acc in the order acc[key] = ... created them
RECURSIVE created_keys(_)
created_keys(values) ==
  IF values = <<>> THEN <<>>
  ELSE LET before == created_keys(SubSeq(values, 1, Len(values) - 1))
           key == values[Len(values)]
       IN IF \E i \in DOMAIN before : before[i] = key
            THEN before ELSE Append(before, key)

RECURSIVE ascending(_)
ascending(keys) ==
  IF keys = {} THEN <<>>
  ELSE LET first == CHOOSE k \in keys : \A q \in keys : toNumber(k) <= toNumber(q)
       IN <<first>> \o ascending(keys \ {first})

\* Object.entries(acc) of acc = values.reduce(... acc[v] = (acc[v] || 0) + 1):
\* the own keys of an object come with the array indices first, in
\* ascending order, and then the other keys in the order of their creation
Object_entries(values) ==
  LET keys == created_keys(values)
      isIndex(key) == isArrayIndex(key)
      isName(key) == ~isArrayIndex(key)
      ordered == ascending({keys[i] : i \in {j \in DOMAIN keys : isIndex(keys[j])}})
                 \o SelectSeq(keys, isName)
  IN [i \in DOMAIN ordered |->
        [key |-> ordered[i],
         count |-> Cardinality({j \in DOMAIN values : values[j] = ordered[i]})]]

\* .sort((a, b) => b.count - a.count): stable, the larger count first
RECURSIVE sort(_)
sort(es) ==
  IF es = <<>> THEN <<>>
  ELSE LET i == CHOOSE i \in DOMAIN es :
                  /\ \A j \in DOMAIN es : es[j].count <= es[i].count
                  /\ \A j \in 1 .. i - 1 : es[j].count < es[i].count
       IN <<es[i]>> \o sort(SubSeq(es, 1, i - 1) \o SubSeq(es, i + 1, Len(es)))

\* .slice(0, 5)
slice(es) == SubSeq(es, 1, IF Len(es) < 5 THEN Len(es) ELSE 5)

\* faulty variant: the players without statistics are not left out
playersWithStats_all(rows) == rows

\* players.filter(player => player.statistics)
playersWithStats(rows) == SelectSeq(rows, LAMBDA p : p.statistics # {})

RECURSIVE sumOverall(_)
sumOverall(rows) ==
  IF rows = <<>> THEN 0
  ELSE (IF Head(rows).statistics = {} THEN 0
        ELSE (CHOOSE st \in Head(rows).statistics : TRUE).overall)
       + sumOverall(Tail(rows))

\* faulty variant: the mean is taken without looking at the number of
\* players; 0 / 0 is NaN, written -1 here
averageOverall_unguarded(withStats) ==
  IF Len(withStats) = 0 THEN -1
  ELSE (200 * sumOverall(withStats) + Len(withStats)) \div (2 * Len(withStats))

\* the mean of overall and Math.round(averageOverall * 100) / 100, as a
\* number of hundredths: Math.round takes a half upwards
averageOverall(withStats) ==
  IF Len(withStats) > 0
    THEN (200 * sumOverall(withStats) + Len(withStats)) \div (2 * Len(withStats))
    ELSE 0

getPlayersStatistics(db) ==
  LET rows == inOrder(PlayersRepository_findAll(db))
      topPositions == slice(sort(Object_entries([i \in DOMAIN rows |-> rows[i].position])))
      topNationalities ==
        slice(sort(Object_entries([i \in DOMAIN rows |-> rows[i].nationality])))
  IN Report([totalPlayers |-> Len(rows),
             averageOverall |-> averageOverall(playersWithStats(rows)),
             topPositions |->
               [i \in DOMAIN topPositions |->
                  [position |-> topPositions[i].key, count |-> topPositions[i].count]],
             topNationalities |->
               [i \in DOMAIN topNationalities |->
                  [nationality |-> topNationalities[i].key,
                   count |-> topNationalities[i].count]]])

\* a read: the tables are left as they are
GetPlayersStatistics ==
  /\ last' = [op |-> "getPlayersStatistics", res |-> getPlayersStatistics(DB)]
  /\ UNCHANGED <<clubs, players, statistics, seqClubs, seqPlayers,
                 seqStatistics, requests, server>>

(***************************************************************************)
(* The handlers when the storage is down: every call of the Prisma client  *)
(* throws the client's error, whose message is StorageError.               *)
(***************************************************************************)
StorageError == "Can't reach database server"
StorageFault == Threw(StorageError)

\* getClubById: the check of the id and repository.findById are both inside
\* the try, and the catch throws one and the same Error for whatever was
\* thrown
getClubById_storageFault(db, id) ==
  LET thrown == IF id <= 0 THEN Threw("ID do clube invalido") ELSE StorageFault
  IN IF thrown.status = "threw" THEN Threw("Falha ao buscar clube") ELSE thrown

getPlayerById_storageFault(db, id) ==
  LET thrown == IF id <= 0 THEN Threw("ID do jogador invalido") ELSE StorageFault
  IN IF thrown.status = "threw" THEN Threw("Falha ao buscar jogador") ELSE thrown

\* getAllClubs: repository.findAll throws, the catch throws its own Error
getAllClubs_storageFault(db) ==
  LET thrown == StorageFault
  IN IF thrown.status = "threw" THEN Threw("Falha ao buscar clubes") ELSE thrown

\* GET /clubs: the catch answers serverError for whatever was thrown
ClubsController_findAll_storageFault(db) ==
  LET res == getAllClubs_storageFault(db)
  IN IF res.status = "threw" THEN Out(serverError, db) ELSE Out(ok(res.value), db)

\* GET /clubs/:id
ClubsController_findById_storageFault(db, id) ==
  IF id <= 0 THEN Out(badRequest("ID do clube invalido"), db)
  ELSE LET res == getClubById_storageFault(db, id)
       IN IF res.status = "threw" THEN Out(serverError, db)
          ELSE IF res = Null THEN Out(notFound("Clube nao encontrado"), db)
          ELSE Out(ok(res.value), db)

\* createClub: repository.findByName throws and the catch throws it on
createClub_storageFault(db, data) ==
  IF data.name = <<>> \/ trim(data.name) = <<>>
    THEN Out(Threw("Nome do clube e obrigatorio"), db)
  ELSE Out(StorageFault, db)

\* POST /clubs
ClubsController_create_storageFault(db, body) ==
  IF "name" \notin DOMAIN body \/ body.name = <<>> \/ trim(body.name) = <<>>
    THEN Out(badRequest("Nome do clube e obrigatorio"), db)
  ELSE LET o == createClub_storageFault(db, [name |-> trim(body.name)]) IN
    IF o.res.status = "threw" THEN catch(o)
    ELSE Out(created(o.res.value), o.db)

\* PlayersRepository.update and PlayersRepository.delete: the catch inside
\* the repository turns whatever prisma throws into null and into false
PlayersRepository_update_storageFault(db, id, data) ==
  LET thrown == StorageFault
  IN IF thrown.status = "threw" THEN Out(Null, db) ELSE Out(thrown, db)

PlayersRepository_delete_storageFault(db, id) ==
  LET thrown == StorageFault
  IN IF thrown.status = "threw" THEN Out(Bool(FALSE), db) ELSE Out(Bool(TRUE), db)

updatePlayer_storageFault(db, id, data) ==
  IF id <= 0 THEN Out(Threw("ID do jogador invalido"), db)
  ELSE IF "name" \in DOMAIN data /\ trim(data.name) = <<>>
    THEN Out(Threw("Nome do jogador nao pode estar vazio"), db)
  ELSE IF "nationality" \in DOMAIN data /\ trim(data.nationality) = <<>>
    THEN Out(Threw("Nacionalidade do jogador nao pode estar vazia"), db)
  ELSE IF "position" \in DOMAIN data /\ trim(data.position) = <<>>
    THEN Out(Threw("Posicao do jogador nao pode estar vazia"), db)
  ELSE PlayersRepository_update_storageFault(
         db, id,
         [f \in DOMAIN data |-> IF f = "clubId" THEN data[f] ELSE trim(data[f])])

deletePlayer_storageFault(db, id) ==
  IF id <= 0 THEN Out(Threw("ID do jogador invalido"), db)
  ELSE PlayersRepository_delete_storageFault(db, id)

\* PUT /players/:id
PlayersController_update_storageFault(db, id, body) ==
  IF id <= 0 THEN Out(badRequest("ID do jogador invalido"), db)
  ELSE IF "name" \in DOMAIN body /\ trim(body.name) = <<>>
    THEN Out(badRequest("Nome do jogador nao pode estar vazio"), db)
  ELSE IF "nationality" \in DOMAIN body /\ trim(body.nationality) = <<>>
    THEN Out(badRequest("Nacionalidade do jogador nao pode estar vazia"), db)
  ELSE IF "position" \in DOMAIN body /\ trim(body.position) = <<>>
    THEN Out(badRequest("Posicao do jogador nao pode estar vazia"), db)
  ELSE IF "clubId" \in DOMAIN body /\ body.clubId <= 0
    THEN Out(badRequest("ID do clube deve ser um numero valido"), db)
  ELSE LET o == updatePlayer_storageFault(
                  db, id,
                  [f \in DOMAIN body |->
                     IF f = "clubId" THEN body[f] ELSE trim(body[f])])
       IN IF o.res.status = "threw" THEN catch(o)
          ELSE IF o.res = Null THEN Out(notFound("Jogador nao encontrado"), o.db)
          ELSE Out(ok(o.res.value), o.db)

\* DELETE /players/:id
PlayersController_delete_storageFault(db, id) ==
  IF id <= 0 THEN Out(badRequest("ID do jogador invalido"), db)
  ELSE LET o == deletePlayer_storageFault(db, id) IN
    IF o.res.status = "threw" THEN catch(o)
    ELSE IF o.res = Bool(FALSE) THEN Out(notFound("Jogador nao encontrado"), o.db)
    ELSE Out(ok({}), o.db)

\* a read, and a request answered while the storage is down: the tables are
\* left as they are
Answered(op, res) ==
  /\ last' = [op |-> op, res |-> res]
  /\ UNCHANGED <<clubs, players, statistics, seqClubs, seqPlayers,
                 seqStatistics, requests, server>>

GetClubById(id) == Answered("getClubById", getClubById(DB, id))
GetPlayerById(id) == Answered("getPlayerById", getPlayerById(DB, id))
GetClubById_storageFault(id) ==
  Answered("getClubById, storage down", getClubById_storageFault(DB, id))
GetPlayerById_storageFault(id) ==
  Answered("getPlayerById, storage down", getPlayerById_storageFault(DB, id))
GetClubs_storageFault ==
  Answered("GET /clubs, storage down", ClubsController_findAll_storageFault(DB).res)
GetClub_storageFault(id) ==
  Answered("GET /clubs/:id, storage down",
           ClubsController_findById_storageFault(DB, id).res)
PostClubs_storageFault(body) ==
  Answered("POST /clubs, storage down",
           ClubsController_create_storageFault(DB, body).res)
PutPlayers_storageFault(id, body) ==
  Answered("PUT /players/:id, storage down",
           PlayersController_update_storageFault(DB, id, body).res)
DeletePlayers_storageFault(id) ==
  Answered("DELETE /players/:id, storage down",
           PlayersController_delete_storageFault(DB, id).res)

(***************************************************************************)
(* PUT /clubs/:id in steps: updateClub awaits findById, then findByName    *)
(* when the name is another than the club's, then update                   *)
(***************************************************************************)
\* updateClub up to its look-up of the club: what it throws, or null when
\* it goes on
updateClub_findById(db, id, data) ==
  IF id <= 0 THEN Threw("ID do clube invalido")
  ELSE IF "name" \in DOMAIN data /\ trim(data.name) = <<>>
    THEN Threw("Nome do clube nao pode estar vazio")
  ELSE IF ClubsRepository_findById(db, id) = {}
    THEN Threw("Clube nao encontrado")
  ELSE Null

\* data.name && data.name !== existingClub.name
updateClub_nameChanges(db, id, data) ==
  /\ "name" \in DOMAIN data
  /\ data.name # <<>>
  /\ \E c \in ClubsRepository_findById(db, id) : data.name # c.name

\* updateClub's look-up of the name
updateClub_findByName(db, data) ==
  IF ClubsRepository_findByName(db, trim(data.name)) # {}
    THEN Threw("Ja existe um clube com este nome")
  ELSE Null

\* updateClub from the update on
updateClub_update(db, id, data) ==
  ClubsRepository_update(
    db, id, [f \in DOMAIN data |-> IF f = "name" THEN trim(data.name) ELSE data[f]])

\* the body's name as ClubsController.update hands it to updateClub
PutClubsData(request) == [name |-> trim(request.name)]

PutClubs_findById(r) ==
  LET request == requests[r]
      thrown == updateClub_findById(DB, request.id, PutClubsData(request))
  IN /\ request.op = "PUT /clubs/:id"
     /\ request.pc = "findById"
     /\ IF request.id <= 0
          THEN Answer(r, DB, badRequest("ID do clube invalido"))
        ELSE IF trim(request.name) = <<>>
          THEN Answer(r, DB, badRequest("Nome do clube nao pode estar vazio"))
        ELSE IF thrown.status = "threw"
          THEN Answer(r, DB, catch(Out(thrown, DB)).res)
        ELSE IF updateClub_nameChanges(DB, request.id, PutClubsData(request))
          THEN Continue(r, DB, [request EXCEPT !.pc = "findByName"])
        ELSE Continue(r, DB, [request EXCEPT !.pc = "update"])

PutClubs_findByName(r) ==
  LET request == requests[r]
      thrown == updateClub_findByName(DB, PutClubsData(request))
  IN /\ request.op = "PUT /clubs/:id"
     /\ request.pc = "findByName"
     /\ IF thrown.status = "threw"
          THEN Answer(r, DB, catch(Out(thrown, DB)).res)
          ELSE Continue(r, DB, [request EXCEPT !.pc = "update"])

\* the response of PUT /clubs/:id to what the update gave
PutClubs_response(o) ==
  IF o.res.status = "threw" THEN catch(o).res
  ELSE IF o.res = Null THEN notFound("Clube nao encontrado")
  ELSE ok(o.res.value)

PutClubs_update(r) ==
  LET request == requests[r]
      o == updateClub_update(DB, request.id, PutClubsData(request))
  IN /\ request.op = "PUT /clubs/:id"
     /\ request.pc = "update"
     /\ Answer(r, o.db, PutClubs_response(o))

(***************************************************************************)
(* Inputs                                                                  *)
(***************************************************************************)
Pads == {<<>>, <<" ">>}
Cores == {<<>>, <<"a">>, <<"A">>}
\* "", " ", "  ", "a", " a", "a ", " a " and the same with "A"
TextInputs == {l \o c \o r : l \in Pads, c \in Cores, r \in Pads}

ClubIds == 0 .. MaxClubs + 1
CreateClubInputs == {[name |-> n] : n \in TextInputs}
UpdateClubInputs == {<< >>} \cup {[name |-> n] : n \in TextInputs}

PlayerIds == 0 .. MaxPlayers + 1

\* a payload that holds both ends of the range, and the values just outside
InRange ==
  [overall |-> 88, pace |-> 100, shooting |-> 79, passing |-> 74,
   dribbling |-> 90, defending |-> 0, physical |-> 64]
OutOfRange == {-1, 101}
StatisticsInputs ==
  {InRange} \cup {[InRange EXCEPT ![g] = w] : g \in Fields, w \in OutOfRange}

\* every text has white space to trim
Texts ==
  [name |-> <<" ", "a">>, nationality |-> <<"A", " ">>,
   position |-> <<" ", "a", " ">>]
NewPlayer(t, c) ==
  [name |-> t.name, nationality |-> t.nationality, position |-> t.position,
   clubId |-> c]
BlankTexts ==
  {[Texts EXCEPT ![f] = b] : f \in {"name", "nationality", "position"},
                             b \in {<<>>, <<" ">>}}
CreatePlayerInputs ==
  {NewPlayer(Texts, c) : c \in ClubIds}
  \cup {NewPlayer(t, 1) : t \in BlankTexts}
  \cup {NewPlayer(Texts, c) @@ ("statistics" :> InRange) : c \in ClubIds}
  \cup {NewPlayer(Texts, c) @@ ("statistics" :> [InRange EXCEPT !.overall = 101]) :
          c \in {1, MaxClubs + 1}}

UpdatePlayerInputs ==
  {<< >>}
  \cup {("clubId" :> c) : c \in ClubIds}
  \cup {(f :> b) : f \in {"name", "nationality", "position"}, b \in {<<>>, <<" ">>}}

\* nothing supplied, one score supplied, one score out of range (the score
\* values themselves are exercised by StatisticsUpdateInputs)
UpdateStatisticsInputs ==
  {<< >>, ("overall" :> 88), ("pace" :> 101)}

\* the inputs of the specification that exercises the score values
StatisticsCreateInputs ==
  {NewPlayer(Texts, 1)}
  \cup {NewPlayer(Texts, 1) @@ ("statistics" :> st) : st \in StatisticsInputs}
StatisticsUpdateInputs ==
  {<< >>, ("overall" :> 90), ("pace" :> 0) @@ ("physical" :> 100)}
  \cup {(g :> w) : g \in Fields, w \in OutOfRange}
  \cup {("overall" :> 90) @@ ("physical" :> 101),
        ("overall" :> -1) @@ ("physical" :> 64)}

\* the inputs of the specification that exercises the updates of a player:
\* nothing, texts with white space around them, a club, a blank text alone
\* and next to a good one
PlayerUpdateInputs ==
  {<< >>,
   ("name" :> <<" ", "A", " ">>),
   ("nationality" :> <<"a", " ">>) @@ ("position" :> <<" ", "A">>),
   ("name" :> <<"A">>) @@ ("position" :> <<" ">>)}
  \cup {("clubId" :> c) : c \in ClubIds}
  \cup {("name" :> <<"a", " ">>) @@ ("clubId" :> c) : c \in {0, 1, MaxClubs + 1}}
  \cup {(f :> <<" ">>) : f \in {"name", "nationality", "position"}}
PlayerCreateInputs ==
  {NewPlayer(Texts, c) @@ ("statistics" :> InRange) : c \in 1 .. MaxClubs}

\* the filters of getPlayersWithFilters: each alone, with 0 and with the
\* stored values, together, and the ones the validation refuses
FilterInputs ==
  {<< >>}
  \cup {("clubId" :> c) : c \in ClubIds}
  \cup {("position" :> t) : t \in {<<>>, <<"a">>, <<"A">>}}
  \cup {("nationality" :> t) : t \in {<<"a">>, <<"A">>}}
  \cup {("minOverall" :> n) : n \in {-1, 0, 88, 89, 101}}
  \cup {("maxOverall" :> n) : n \in {-1, 0, 87, 88, 101}}
  \cup {("minOverall" :> 0) @@ ("maxOverall" :> 100),
        ("minOverall" :> 89) @@ ("maxOverall" :> 88),
        ("clubId" :> 1) @@ ("position" :> <<"a">>) @@ ("minOverall" :> 50)}

\* the requests handled at once: clubs created under names that trim to the
\* same and that differ in letter case, club 1 deleted, players created with
\* statistics in either club, player 1 moved to club 1
RequestInputs ==
  {Request("POST /clubs", "findByName", 0, 0, n) :
     n \in {<<"a">>, <<" ", "a">>, <<"A">>}}
  \cup {Request("DELETE /clubs/:id", "findById", 1, 0, <<>>)}
  \cup {Request("POST /players", "create", 0, c, <<>>) : c \in {1, 2}}
  \cup {Request("PUT /players/:id", "update", 1, 1, <<>>)}

Init ==
  /\ clubs = {}
  /\ players = {}
  /\ statistics = {}
  /\ seqClubs = 0
  /\ seqPlayers = 0
  /\ seqStatistics = 0
  /\ last = [op |-> "none", res |-> Null]
  /\ requests = [r \in 1 .. MaxRequests |-> Idle]
  /\ server = Stopped

Next ==
  \/ \E data \in CreateClubInputs : CreateClub(data)
  \/ \E id \in ClubIds, data \in UpdateClubInputs : UpdateClub(id, data)
  \/ \E id \in ClubIds : DeleteClub(id)
  \/ \E data \in CreatePlayerInputs : CreatePlayer(data)
  \/ \E id \in PlayerIds, data \in UpdatePlayerInputs : UpdatePlayer(id, data)
  \/ \E playerId \in PlayerIds, data \in UpdateStatisticsInputs :
        UpdatePlayerStatistics(playerId, data)
  \/ \E id \in PlayerIds : DeletePlayer(id)

Spec == Init /\ [][Next]_vars

\* one club, and every score column written in and out of range
NextStatistics ==
  \/ CreateClub([name |-> <<"a">>])
  \/ \E data \in StatisticsCreateInputs : CreatePlayer(data)
  \/ \E playerId \in PlayerIds, data \in StatisticsUpdateInputs :
        UpdatePlayerStatistics(playerId, data)
  \/ \E id \in PlayerIds : DeletePlayer(id)

SpecStatistics == Init /\ [][NextStatistics]_vars

\* two clubs, and the players updated in every way
NextPlayers ==
  \/ \E data \in {[name |-> <<"a">>], [name |-> <<"A">>]} : CreateClub(data)
  \/ \E data \in PlayerCreateInputs : CreatePlayer(data)
  \/ \E id \in PlayerIds, data \in PlayerUpdateInputs : UpdatePlayer(id, data)
  \/ \E id \in PlayerIds, body \in PlayerUpdateInputs : PutPlayer(id, body)
  \/ \E id \in PlayerIds : DeletePlayer(id)

SpecPlayers == Init /\ [][NextPlayers]_vars

\* requests handled at once, their storage calls interleaved
NextConcurrent ==
  \E r \in 1 .. MaxRequests :
    \/ \E request \in RequestInputs : Receive(r, request)
    \/ PostClubs_findByName(r)
    \/ PostClubs_create(r)
    \/ DeleteClubs_findById(r)
    \/ DeleteClubs_delete(r)
    \/ PostPlayers(r)
    \/ PostPlayers_rolledBack(r)
    \/ PutPlayers(r)

SpecConcurrent == Init /\ [][NextConcurrent]_vars

\* the players of the stores getPlayersStatistics is applied to: positions
\* and nationalities that repeat and that are numerals, with and without
\* statistics, overall 0 among them
ReportPlayer(position, nationality) ==
  [name |-> <<"a">>, nationality |-> nationality, position |-> position,
   clubId |-> 1]
ReportInputs ==
  {ReportPlayer(<<"a">>, <<"a">>) @@ ("statistics" :> InRange),
   ReportPlayer(<<"A">>, <<"a">>) @@ ("statistics" :> [InRange EXCEPT !.overall = 0]),
   ReportPlayer(<<"1">>, <<"A">>) @@ ("statistics" :> [InRange EXCEPT !.overall = 89]),
   ReportPlayer(<<"a">>, <<"A">>),
   ReportPlayer(<<"2">>, <<"1", "0">>) @@ ("statistics" :> [InRange EXCEPT !.overall = 100]),
   ReportPlayer(<<"A">>, <<"a">>) @@ ("statistics" :> [InRange EXCEPT !.overall = 1])}

\* the store after createClub and one createPlayer for each of the datas
RECURSIVE createPlayers(_, _)
createPlayers(db, datas) ==
  IF datas = <<>> THEN db
  ELSE createPlayers(createPlayer(db, Head(datas)).db, Tail(datas))

ReportStores ==
  LET empty == [clubs |-> {}, players |-> {}, statistics |-> {},
                seqClubs |-> 0, seqPlayers |-> 0, seqStatistics |-> 0]
      club == createClub(empty, [name |-> <<"a">>]).db
  IN {empty}
     \cup {createPlayers(club, datas) :
             datas \in UNION {[1 .. n -> ReportInputs] : n \in 0 .. MaxReportPlayers}}

InitReport ==
  /\ \E db \in ReportStores :
       /\ clubs = db.clubs
       /\ players = db.players
       /\ statistics = db.statistics
       /\ seqClubs = db.seqClubs
       /\ seqPlayers = db.seqPlayers
       /\ seqStatistics = db.seqStatistics
  /\ last = [op |-> "none", res |-> Null]
  /\ requests = [r \in 1 .. MaxRequests |-> Idle]
  /\ server = Stopped

NextReport == GetPlayersStatistics

SpecReport == InitReport /\ [][NextReport]_vars

\* two clubs and their players, read and written while the storage works
\* and while it is down
NextFaults ==
  \/ \E data \in {[name |-> <<"a">>], [name |-> <<"A">>]} : CreateClub(data)
  \/ \E data \in PlayerCreateInputs : CreatePlayer(data)
  \/ \E id \in ClubIds : GetClubById(id)
  \/ \E id \in PlayerIds : GetPlayerById(id)
  \/ \E id \in ClubIds : GetClubById_storageFault(id)
  \/ \E id \in PlayerIds : GetPlayerById_storageFault(id)
  \/ GetClubs_storageFault
  \/ \E id \in ClubIds : GetClub_storageFault(id)
  \/ \E body \in CreateClubInputs : PostClubs_storageFault(body)
  \/ \E id \in PlayerIds, body \in PlayerUpdateInputs :
        PutPlayers_storageFault(id, body)
  \/ \E id \in PlayerIds : DeletePlayers_storageFault(id)

SpecFaults == Init /\ [][NextFaults]_vars

\* clubs created and renamed at once, under two names
RenameInputs ==
  {Request("POST /clubs", "findByName", 0, 0, n) : n \in {<<"a">>, <<"A">>}}
  \cup {Request("PUT /clubs/:id", "findById", id, 0, n) :
          id \in 1 .. MaxClubs, n \in {<<"a">>, <<"A", " ">>}}

NextRename ==
  \E r \in 1 .. MaxRequests :
    \/ \E request \in RenameInputs : Receive(r, request)
    \/ PostClubs_findByName(r)
    \/ PostClubs_create(r)
    \/ PutClubs_findById(r)
    \/ PutClubs_findByName(r)
    \/ PutClubs_update(r)

SpecRename == Init /\ [][NextRename]_vars

(***************************************************************************)
(* Start of the server: startServer awaits createApp, which awaits         *)
(* migrateData before it returns the application.  Each call of the Prisma *)
(* client in the seeding is one step.  The seed files src/data/clubs.json  *)
(* and src/data/players.json are stood for by a few records: the clubs     *)
(* with their ids, and the players with the names of their clubs, the      *)
(* first of them of a club that is not among the clubs.                    *)
(***************************************************************************)
SeedName(i) == [j \in 1 .. i |-> "a"]
clubsData == [i \in 1 .. MaxSeedClubs |-> [id |-> i, name |-> SeedName(i)]]
playersData ==
  [i \in 1 .. MaxSeedPlayers |->
     [name |-> SeedName(i), nationality |-> <<"A">>, position |-> <<"a">>,
      club |-> IF i = 1 THEN <<"A">> ELSE SeedName(((i - 2) % MaxSeedClubs) + 1),
      statistics |-> InRange]]

\* faulty variant: the table is taken for empty whatever it holds
isTableEmpty_always(rows) == TRUE

\* isTableEmpty: Number(countValue) === 0
isTableEmpty(rows) == Cardinality(rows) = 0

\* one step of the start: the tables become db, the process goes on at
\* `process`
Seeding(db, process) ==
  /\ clubs' = db.clubs
  /\ players' = db.players
  /\ statistics' = db.statistics
  /\ seqClubs' = db.seqClubs
  /\ seqPlayers' = db.seqPlayers
  /\ seqStatistics' = db.seqStatistics
  /\ server' = process
  /\ UNCHANGED <<last, requests>>

\* the process is started, for the first time or again; createApp sets the
\* application up and calls migrateData
StartServer ==
  /\ server.pc \in {"stopped", "exited", "listening"}
  /\ Seeding(DB, Process("migrateClubs", 0, 0, 0, {}))

\* migrateClubs: isTableEmpty('clubs')
MigrateClubs_isTableEmpty ==
  /\ server.pc = "migrateClubs"
  /\ IF ~isTableEmpty(clubs)
       THEN Seeding(DB, Process("migratePlayers", 0, 0, 0, {"clubs"}))
     ELSE IF Len(clubsData) = 0
       THEN Seeding(DB, Process("migratePlayers", 0, 0, 0, {}))
     ELSE Seeding(DB, Process("club.create", 1, 0, 0, {}))

\* migrateClubs: prisma.club.create with the id of the seed record; the
\* primary key and the unique index on the name can reject it, and the
\* error ends the process as any other
MigrateClubs_create ==
  LET club == clubsData[server.i]
      row == [id |-> club.id, name |-> club.name]
      after == [DB EXCEPT !.clubs = @ \cup {row},
                          !.seqClubs = IF club.id > @ THEN club.id ELSE @]
  IN /\ server.pc = "club.create"
     /\ IF \E c \in clubs : c.id = club.id \/ c.name = club.name
          THEN Seeding(DB, Process("exited", 0, 0, 0, server.skipped))
        ELSE IF server.i < Len(clubsData)
          THEN Seeding(after, [server EXCEPT !.i = @ + 1])
        ELSE Seeding(after, Process("migratePlayers", 0, 0, 0, server.skipped))

\* the seed player to go on with; after the last one migrateData goes on to
\* its finally
nextPlayer(i, skipped) ==
  IF i <= Len(playersData) THEN Process("club.findFirst", i, 0, 0, skipped)
  ELSE Process("$disconnect", 0, 0, 0, skipped)

\* migratePlayers: isTableEmpty('players')
MigratePlayers_isTableEmpty ==
  /\ server.pc = "migratePlayers"
  /\ IF ~isTableEmpty(players)
       THEN Seeding(DB, Process("$disconnect", 0, 0, 0,
                                server.skipped \cup {"players"}))
       ELSE Seeding(DB, nextPlayer(1, server.skipped))

\* migratePlayers: prisma.club.findFirst by the name of the player's club;
\* a player of no club is left out
MigratePlayers_findFirst ==
  LET found == {c \in clubs : c.name = playersData[server.i].club}
  IN /\ server.pc = "club.findFirst"
     /\ IF found = {}
          THEN Seeding(DB, nextPlayer(server.i + 1, server.skipped))
          ELSE Seeding(DB, [server EXCEPT !.pc = "player.create",
                                          !.clubId = (CHOOSE c \in found : TRUE).id])

\* migratePlayers: prisma.player.create
MigratePlayers_createPlayer ==
  LET player == playersData[server.i]
      row == [id |-> seqPlayers + 1, name |-> player.name,
              nationality |-> player.nationality, position |-> player.position,
              clubId |-> server.clubId]
  IN /\ server.pc = "player.create"
     /\ IF ~players_clubId_fkey(DB, server.clubId)
          THEN Seeding(DB, Process("exited", 0, 0, 0, server.skipped))
          ELSE Seeding([DB EXCEPT !.players = @ \cup {row}, !.seqPlayers = @ + 1],
                       [server EXCEPT !.pc = "statistics.create",
                                      !.playerId = row.id])

\* migratePlayers: prisma.statistics.create
MigratePlayers_createStatistics ==
  LET row == statisticsRow(seqStatistics + 1, server.playerId,
                           playersData[server.i].statistics)
  IN /\ server.pc = "statistics.create"
     /\ IF statisticsOf(DB, server.playerId) # {}
          THEN Seeding(DB, Process("exited", 0, 0, 0, server.skipped))
          ELSE Seeding([DB EXCEPT !.statistics = @ \cup {row},
                                  !.seqStatistics = @ + 1],
                       nextPlayer(server.i + 1, server.skipped))

\* migrateData: finally, await prisma.$disconnect(), after a seeding that
\* threw nothing; migrateData returns and createApp returns the application
MigrateData_disconnect ==
  /\ server.pc = "$disconnect"
  /\ Seeding(DB, [server EXCEPT !.pc = "listen"])

\* startServer: app.listen
StartServer_listen ==
  /\ server.pc = "listen"
  /\ Seeding(DB, [server EXCEPT !.pc = "listening"])

\* a call of the Prisma client in the seeding throws: migrateClubs and
\* migratePlayers throw it on, and the catch of migrateData calls
\* process.exit(1).  The process ends there: createApp's own catch around
\* migrateData is not reached, and neither is app.listen
MigrateData_exit ==
  /\ server.pc \in {"migrateClubs", "club.create", "migratePlayers",
                    "club.findFirst", "player.create", "statistics.create"}
  /\ Seeding(DB, Process("exited", 0, 0, 0, server.skipped))

NextSeed ==
  \/ StartServer
  \/ MigrateClubs_isTableEmpty
  \/ MigrateClubs_create
  \/ MigratePlayers_isTableEmpty
  \/ MigratePlayers_findFirst
  \/ MigratePlayers_createPlayer
  \/ MigratePlayers_createStatistics
  \/ MigrateData_disconnect
  \/ StartServer_listen
  \/ MigrateData_exit

SpecSeed == Init /\ [][NextSeed]_vars

(***************************************************************************)
(* The properties.  A property of a call is stated of its outcome in       *)
(* every reachable store, for every argument the model draws.              *)
(***************************************************************************)
ClubNameConflict == "Ja existe um clube com este nome"
ClubHasPlayers == "Nao e possivel remover um clube que possui jogadores"
StatisticsOutOfRange == "As estatisticas devem estar entre 0 e 100"
InvalidPlayerId == "ID do jogador invalido"

\* the messages of the players service's own argument checks
ValidationErrors ==
  {"Nome do jogador e obrigatorio", "Nacionalidade do jogador e obrigatoria",
   "Posicao do jogador e obrigatoria", "ID do clube e obrigatorio",
   InvalidPlayerId, StatisticsOutOfRange}

AllCreatePlayerInputs == CreatePlayerInputs \cup StatisticsCreateInputs
AllUpdateStatisticsInputs == UpdateStatisticsInputs \cup StatisticsUpdateInputs

clubIds == {c.id : c \in clubs}
playerIds == {p.id : p \in players}
suppliedOutOfRange(payload) ==
  \E f \in DOMAIN payload : payload[f] < 0 \/ payload[f] > 100

\* C1: createClub(n), n not blank.  When no club is named trim(n) it succeeds
\* and adds exactly one club, named trim(n), and a createClub(m) after it with
\* trim(m) = trim(n) fails with the duplicate-name error and leaves the clubs
\* unchanged; when a club is named trim(n) it fails in that same way.
C1_CreateClubTwice ==
  \A data \in CreateClubInputs :
    trim(data.name) # <<>> =>
      LET first == createClub(DB, data) IN
      IF \A c \in clubs : c.name # trim(data.name)
        THEN /\ first.res.status = "entity"
             /\ \E c \in first.db.clubs :
                  /\ c.name = trim(data.name)
                  /\ c.id \notin clubIds
                  /\ first.db.clubs = clubs \cup {c}
             /\ \A again \in CreateClubInputs :
                  trim(again.name) = trim(data.name) =>
                    LET second == createClub(first.db, again) IN
                    /\ second.res = Threw(ClubNameConflict)
                    /\ second.db.clubs = first.db.clubs
        ELSE /\ first.res = Threw(ClubNameConflict)
             /\ first.db.clubs = clubs

\* a second createClub of the name "a" has just been refused
C1_Witness ==
  /\ last.op = "createClub"
  /\ last.res = Threw(ClubNameConflict)
  /\ \E c \in clubs : c.name = <<"a">>

\* C2: deleteClub(c) of an existing club: with a player it fails with the
\* has-players error and clubs, players and statistics are unchanged; with
\* none it returns true, removes that club only, and getClub(c) is null.
C2_DeleteClub ==
  \A id \in ClubIds :
    id \in clubIds =>
      LET o == deleteClub(DB, id) IN
      IF playersOf(DB, id) # {}
        THEN /\ o.res = Threw(ClubHasPlayers)
             /\ o.db = DB
        ELSE /\ o.res = Bool(TRUE)
             /\ o.db.clubs = {c \in clubs : c.id # id}
             /\ o.db.players = players
             /\ o.db.statistics = statistics
             /\ getClubById(o.db, id) = Null

\* deleteClub has just been refused for a club whose player has statistics
C2_Witness ==
  /\ last.op = "deleteClub"
  /\ last.res = Threw(ClubHasPlayers)
  /\ statistics # {}

\* C3: a createPlayer whose statistics hold a score below 0 or above 100,
\* and an updatePlayerStatistics that supplies one, fail with an argument
\* error and leave the whole store as it was.
C3_OutOfRangeRejected ==
  /\ \A data \in AllCreatePlayerInputs :
       ("statistics" \in DOMAIN data /\ suppliedOutOfRange(data.statistics)) =>
         LET o == createPlayer(DB, data) IN
         /\ o.res.status = "threw"
         /\ o.res.error \in ValidationErrors
         /\ o.db = DB
  /\ \A playerId \in PlayerIds, data \in AllUpdateStatisticsInputs :
       suppliedOutOfRange(data) =>
         LET o == updatePlayerStatistics(DB, playerId, data) IN
         /\ o.res.status = "threw"
         /\ o.res.error \in ValidationErrors
         /\ o.db = DB

\* an out-of-range update has just been refused while two rows were stored
C3_Witness ==
  /\ last.op = "updatePlayerStatistics"
  /\ last.res = Threw(StatisticsOutOfRange)
  /\ Cardinality(statistics) = 2

\* C4: createPlayer with a positive clubId that is no club's id fails (an
\* argument error or the foreign-key error) and adds no player and no
\* statistics row.
C4_CreatePlayerUnknownClub ==
  \A data \in AllCreatePlayerInputs :
    (data.clubId > 0 /\ data.clubId \notin clubIds) =>
      LET o == createPlayer(DB, data) IN
      /\ o.res.status = "threw"
      /\ o.res.error \in ValidationErrors \cup {"P2003"}
      /\ o.db = DB

\* the foreign key has just refused a createPlayer, other players exist
C4_Witness ==
  /\ last.op = "createPlayer"
  /\ last.res = Threw("P2003")
  /\ players # {}

\* C5: after a createPlayer with statistics that returned player p,
\* getPlayer(p) gives the trimmed texts, the clubId and the seven scores.
C5_CreateThenGet ==
  \A data \in AllCreatePlayerInputs :
    LET o == createPlayer(DB, data) IN
    ("statistics" \in DOMAIN data /\ o.res.status = "entity") =>
      \A player \in o.res.value :
        LET got == getPlayerById(o.db, player.id) IN
        /\ got.status = "entity"
        /\ \A p \in got.value :
             /\ p.name = trim(data.name)
             /\ p.nationality = trim(data.nationality)
             /\ p.position = trim(data.position)
             /\ p.clubId = data.clubId
             /\ Cardinality(p.statistics) = 1
             /\ \A st \in p.statistics, f \in Fields :
                  st[f] = data.statistics[f]

\* a player has just been created in club 2 with statistics, from texts
\* with blanks around them
C5_Witness ==
  /\ last.op = "createPlayer"
  /\ last.res.status = "entity"
  /\ \E p \in last.res.value :
       /\ p.statistics # {}
       /\ p.name = <<"a">>
       /\ p.clubId = 2

\* what an in-range updatePlayerStatistics does to a store that holds a
\* statistics row of playerId, and to one that holds none
updateStatisticsEffect(playerId, data, o) ==
  IF statisticsOf(DB, playerId) # {}
    THEN /\ o.res = Bool(TRUE)
         /\ o.db.clubs = clubs /\ o.db.players = players
         /\ \E old \in statistics, new \in o.db.statistics :
              /\ old.playerId = playerId
              /\ new.playerId = playerId
              /\ new.id = old.id
              /\ \A f \in Fields :
                   new[f] = IF f \in DOMAIN data THEN data[f] ELSE old[f]
              /\ o.db.statistics = (statistics \ {old}) \cup {new}
    ELSE /\ o.res = Bool(FALSE)
         /\ o.db = DB

\* C6 as stated: for every playerId, an in-range updatePlayerStatistics
\* returns true when a row of playerId exists and false otherwise.
C6_AsStated ==
  \A playerId \in PlayerIds, data \in AllUpdateStatisticsInputs :
    ~suppliedOutOfRange(data) =>
      updateStatisticsEffect(playerId, data,
                             updatePlayerStatistics(DB, playerId, data))

\* C6 amended: for a positive playerId, an in-range updatePlayerStatistics
\* returns true exactly when a row of playerId exists, then with the supplied
\* scores written and the others kept, and false otherwise, with nothing
\* changed; for a playerId <= 0 it throws the invalid-id error, with
\* nothing changed.
C6_UpdateStatistics ==
  \A playerId \in PlayerIds, data \in AllUpdateStatisticsInputs :
    ~suppliedOutOfRange(data) =>
      LET o == updatePlayerStatistics(DB, playerId, data) IN
      IF playerId > 0
        THEN updateStatisticsEffect(playerId, data, o)
        ELSE o.res = Threw(InvalidPlayerId) /\ o.db = DB

\* overall has just been set to 90 in one of two rows, pace left at 100
C6_Witness ==
  /\ last.op = "updatePlayerStatistics"
  /\ last.res = Bool(TRUE)
  /\ Cardinality(statistics) = 2
  /\ \E st \in statistics : st.overall = 90 /\ st.pace = 100

\* C7: no two clubs have the same name; a name that differs from every
\* stored name, be it only in letter case, is accepted by createClub.
C7_UniqueNames ==
  /\ \A c1, c2 \in clubs : c1.name = c2.name => c1 = c2
  /\ \A data \in CreateClubInputs :
       (trim(data.name) # <<>> /\ \A c \in clubs : c.name # trim(data.name)) =>
         createClub(DB, data).res.status = "entity"

\* two clubs whose names differ only in letter case
C7_Witness ==
  \E c1, c2 \in clubs : c1.name = <<"a">> /\ c2.name = <<"A">>

\* C8: every player's clubId is the id of a club.
C8_PlayersHaveClubs == \A p \in players : p.clubId \in clubIds

\* a player was moved to club 2 and club 1 has just been deleted
C8_Witness ==
  /\ last.op = "deleteClub"
  /\ last.res = Bool(TRUE)
  /\ 1 \notin clubIds
  /\ \E p \in players : p.id = 1 /\ p.clubId = 2

\* every service call the model draws, with its outcome in the store
Calls ==
  {[op |-> "createClub", o |-> createClub(DB, d)] : d \in CreateClubInputs}
  \cup {[op |-> "updateClub", o |-> updateClub(DB, x[1], x[2])] :
          x \in ClubIds \X UpdateClubInputs}
  \cup {[op |-> "deleteClub", o |-> deleteClub(DB, id)] : id \in ClubIds}
  \cup {[op |-> "createPlayer", o |-> createPlayer(DB, d)] :
          d \in AllCreatePlayerInputs}
  \cup {[op |-> "updatePlayer", o |-> updatePlayer(DB, x[1], x[2])] :
          x \in PlayerIds \X UpdatePlayerInputs}
  \cup {[op |-> "updatePlayerStatistics",
         o |-> updatePlayerStatistics(DB, x[1], x[2])] :
          x \in PlayerIds \X AllUpdateStatisticsInputs}
  \cup {[op |-> "deletePlayer", o |-> deletePlayer(DB, id)] : id \in PlayerIds}

C10_ScoresInRange ==
  \A st \in statistics, f \in Fields : 0 <= st[f] /\ st[f] <= 100

\* an update has just written both ends of the range
C10_Witness ==
  /\ last.op = "updatePlayerStatistics"
  /\ last.res = Bool(TRUE)
  /\ \E st \in statistics : st.pace = 0 /\ st.physical = 100

AllUpdatePlayerInputs == UpdatePlayerInputs \cup PlayerUpdateInputs
TextFields == {"name", "nationality", "position"}
\* a supplied text is blank, or a supplied clubId is not positive
suppliedInvalid(data) ==
  \/ \E f \in TextFields \cap DOMAIN data : trim(data[f]) = <<>>
  \/ "clubId" \in DOMAIN data /\ data.clubId <= 0

\* C14 as stated: PUT /clubs/:id and DELETE /clubs/:id with a positive id
\* that is no club's id are answered 404.
C14_AsStated ==
  \A id \in ClubIds :
    (id > 0 /\ id \notin clubIds) =>
      /\ \A body \in UpdateClubInputs :
           ("name" \in DOMAIN body => trim(body.name) # <<>>) =>
             ClubsController_update(DB, id, body).res.statusCode = 404
      /\ ClubsController_delete(DB, id).res.statusCode = 404

\* C15 as stated: updatePlayer with a positive id and valid fields returns
\* null (not found) exactly when no player has that id; an update of an
\* existing player that cannot be applied throws, and changes nothing.
C15_AsStated ==
  \A id \in PlayerIds, data \in AllUpdatePlayerInputs :
    (id > 0 /\ \A f \in TextFields \cap DOMAIN data : trim(data[f]) # <<>>) =>
      LET o == updatePlayer(DB, id, data) IN
      /\ o.res = Null <=> id \notin playerIds
      /\ (id \in playerIds /\ o.res.status # "entity") =>
           (o.res.status = "threw" /\ o.db = DB)

C17_UpdatePlayerFrame ==
  \A id \in PlayerIds, data \in AllUpdatePlayerInputs :
    LET o == updatePlayer(DB, id, data) IN
    o.res.status = "entity" =>
      \E old \in players, new \in o.db.players :
        /\ old.id = id
        /\ new.id = id
        /\ \A f \in TextFields :
             new[f] = IF f \in DOMAIN data THEN trim(data[f]) ELSE old[f]
        /\ new.clubId = IF "clubId" \in DOMAIN data THEN data.clubId
                        ELSE old.clubId
        /\ o.db.players = (players \ {old}) \cup {new}
        /\ o.db.clubs = clubs
        /\ o.db.statistics = statistics
        /\ \A p \in o.res.value : p.statistics = statisticsOf(DB, id)

\* one of two players has just been renamed "A", the other still is "a"
C17_Witness ==
  /\ last.op = "updatePlayer"
  /\ last.res.status = "entity"
  /\ \E p, q \in players :
       /\ p.name = <<"A">> /\ p.nationality = <<"A">>
       /\ q.name = <<"a">>
       /\ statisticsOf(DB, p.id) # {}

\* C18 as stated: updateClub of an existing club with a name that is not
\* blank throws the duplicate-name error only when another club has the
\* trimmed name; with no name, or with a name that trims to the club's own,
\* it returns the club and the stored names are unchanged.
C18_AsStated ==
  \A id \in ClubIds, data \in UpdateClubInputs :
    (id \in clubIds /\ ("name" \in DOMAIN data => trim(data.name) # <<>>)) =>
      LET o == updateClub(DB, id, data) IN
      /\ o.res = Threw(ClubNameConflict) =>
           \E c \in clubs : c.id # id /\ c.name = trim(data.name)
      /\ ("name" \notin DOMAIN data
            \/ \E c \in clubs : c.id = id /\ c.name = trim(data.name)) =>
           (o.res.status = "entity" /\ o.db.clubs = clubs)

\* C19: deletePlayer with a positive id returns true exactly when a player
\* has that id; then that player and its statistics row are gone and the
\* clubs and every other player and row are as before; otherwise the store
\* is unchanged.
C19_DeletePlayer ==
  \A id \in PlayerIds :
    id > 0 =>
      LET o == deletePlayer(DB, id) IN
      IF id \in playerIds
        THEN /\ o.res = Bool(TRUE)
             /\ o.db.players = {p \in players : p.id # id}
             /\ o.db.statistics = {st \in statistics : st.playerId # id}
             /\ o.db.clubs = clubs
        ELSE /\ o.res = Bool(FALSE)
             /\ o.db = DB

\* one of two players with statistics has just been deleted
C19_Witness ==
  /\ last.op = "deletePlayer"
  /\ last.res = Bool(TRUE)
  /\ Cardinality(players) = 1
  /\ Cardinality(statistics) = 1
  /\ seqStatistics = 2
  /\ clubs # {}

\* the players that satisfy every filter that is supplied
satisfying(filters) ==
  {p \in players :
     /\ "clubId" \in DOMAIN filters => p.clubId = filters.clubId
     /\ "position" \in DOMAIN filters => p.position = filters.position
     /\ "nationality" \in DOMAIN filters => p.nationality = filters.nationality
     /\ "minOverall" \in DOMAIN filters =>
          \E st \in statisticsOf(DB, p.id) : st.overall >= filters.minOverall
     /\ "maxOverall" \in DOMAIN filters =>
          \E st \in statisticsOf(DB, p.id) : st.overall <= filters.maxOverall}

\* C20 as stated: for filters the validation accepts, getPlayersWithFilters
\* returns exactly the players that satisfy every supplied filter, and with
\* no filter the players getAllPlayers returns.
C20_AsStated ==
  /\ getPlayersWithFilters(DB, << >>) = getAllPlayers(DB)
  /\ \A filters \in FilterInputs :
       LET got == getPlayersWithFilters(DB, filters) IN
       got.status = "list" =>
         got.value = {playerWithRelations(DB, p) : p \in satisfying(filters)}

(***************************************************************************)
(* Requests handled at once                                                *)
(***************************************************************************)
inFlight(op, pc) == {r \in 1 .. MaxRequests : requests[r].op = op /\ requests[r].pc = pc}

\* C11: createPlayer with a statistics payload is atomic.  Every player is
\* created with statistics here, so in every state, those between the steps
\* of other requests and those after a failed statistics insert included,
\* each player has exactly one statistics row and each row has its player;
\* and a POST /players about to run either adds one player together with
\* its row and answers 201, or leaves both tables as they are.
C11_CreatePlayerAtomic ==
  /\ \A p \in players : Cardinality(statisticsOf(DB, p.id)) = 1
  /\ \A st \in statistics : st.playerId \in playerIds
  /\ seqStatistics = seqPlayers
  /\ \A r \in inFlight("POST /players", "create") :
       LET o == PlayersController_create(DB, PostPlayersBody(requests[r])) IN
       IF o.res.statusCode = 201
         THEN /\ \E p \in o.db.players \ players :
                   /\ o.db.players = players \cup {p}
                   /\ \E st \in o.db.statistics \ statistics :
                        /\ st.playerId = p.id
                        /\ o.db.statistics = statistics \cup {st}
         ELSE /\ o.db.players = players
              /\ o.db.statistics = statistics

\* a POST /players has just failed at its statistics insert, while another
\* request is in flight and after an earlier POST /players succeeded:
\* the earlier player and its row are all there is
C11_Witness ==
  /\ last.op = "POST /players"
  /\ last.res.statusCode = 400
  /\ last.res.error = "statistics insert failed"
  /\ Cardinality(players) = 1
  /\ Cardinality(statistics) = 1
  /\ seqPlayers = 1
  /\ \E r \in 1 .. MaxRequests : requests[r].pc # "idle"

\* C12 as stated: no step of a DELETE /clubs/:id removes a player or a
\* statistics row, whatever the other requests did between its look-up and
\* its delete.
C12_AsStated ==
  [][\A r \in inFlight("DELETE /clubs/:id", "delete") :
       requests'[r] # requests[r] =>
         (players \subseteq players' /\ statistics \subseteq statistics')]_vars

\* C13: when POST /clubs requests with the same trimmed name have all passed
\* the look-up of the name before any of them inserts, one club with that
\* name is stored: names stay unique, the insert of a request whose name was
\* taken in the meantime stores nothing and is answered 400, the insert of a
\* request whose name is still free stores one club and is answered 201, and
\* no POST /clubs is answered 500 or left unanswered by a fault.
C13_CreateClubRace ==
  /\ \A c, d \in clubs : c.name = d.name => c = d
  /\ \A r \in inFlight("POST /clubs", "create") :
       LET name == trim(requests[r].name)
           o == createClub_create(DB, [name |-> name])
           response == PostClubs_response(o)
       IN IF \E c \in clubs : c.name = name
            THEN /\ response.statusCode = 400
                 /\ o.db = DB
            ELSE /\ response.statusCode = 201
                 /\ Cardinality(o.db.clubs) = Cardinality(clubs) + 1
                 /\ \E c \in o.db.clubs \ clubs : c.name = name
  /\ last.op = "POST /clubs" => last.res.statusCode \in {201, 400}

\* the loser of a race has just been answered: its insert was rejected by
\* the unique index, after its own look-up had found the name free, and one
\* club has the name
C13_Witness ==
  /\ last.op = "POST /clubs"
  /\ last.res.statusCode = 400
  /\ last.res.error = "P2002"
  /\ Cardinality({c \in clubs : c.name = <<"a">>}) = 1

(***************************************************************************)
(* getPlayersStatistics                                                    *)
(***************************************************************************)
\* C21: getPlayersStatistics on a store with no players returns
\* totalPlayers = 0, averageOverall = 0, topPositions = [] and
\* topNationalities = [].
C21_EmptyReport ==
  players = {} =>
    getPlayersStatistics(DB) =
      Report([totalPlayers |-> 0, averageOverall |-> 0,
              topPositions |-> <<>>, topNationalities |-> <<>>])

\* the report of a store without players has just been returned
C21_Witness ==
  /\ players = {}
  /\ last.op = "getPlayersStatistics"
  /\ last.res.status = "report"
  /\ last.res.value.totalPlayers = 0

\* the top list `top` of the values as the claim words it: min(5, number of
\* distinct values) entries, each with the number of players that have the
\* value, the larger count first and equal counts in the order of the
\* values' first occurrence, and no value left out that has a larger count
firstOccurrence(values, v) ==
  CHOOSE i \in DOMAIN values :
    values[i] = v /\ \A j \in 1 .. i - 1 : values[j] # v
occurrences(values, v) == Cardinality({i \in DOMAIN values : values[i] = v})
topAsStated(top, values) ==
  LET distinct == {values[i] : i \in DOMAIN values}
      listed == {top[i].key : i \in DOMAIN top}
  IN /\ Len(top) = IF Cardinality(distinct) < 5 THEN Cardinality(distinct) ELSE 5
     /\ listed \subseteq distinct
     /\ Cardinality(listed) = Len(top)
     /\ \A i \in DOMAIN top : top[i].count = occurrences(values, top[i].key)
     /\ \A i, j \in DOMAIN top :
          i < j =>
            \/ top[i].count > top[j].count
            \/ /\ top[i].count = top[j].count
               /\ firstOccurrence(values, top[i].key)
                    < firstOccurrence(values, top[j].key)
     /\ \A v \in distinct \ listed :
          \A i \in DOMAIN top : occurrences(values, v) <= top[i].count

\* C22 as stated: totalPlayers is the number of players, and topPositions
\* and topNationalities list the min(5, distinct values) most frequent
\* values with their counts, by count descending, ties in the order of first
\* occurrence among the players, no omitted value with a larger count.
C22_AsStated ==
  LET report == getPlayersStatistics(DB).value
      rows == inOrder(players)
  IN /\ report.totalPlayers = Cardinality(players)
     /\ topAsStated([i \in DOMAIN report.topPositions |->
                       [key |-> report.topPositions[i].position,
                        count |-> report.topPositions[i].count]],
                    [i \in DOMAIN rows |-> rows[i].position])
     /\ topAsStated([i \in DOMAIN report.topNationalities |->
                       [key |-> report.topNationalities[i].nationality,
                        count |-> report.topNationalities[i].count]],
                    [i \in DOMAIN rows |-> rows[i].nationality])

RECURSIVE total(_)
total(rows) ==
  IF rows = {} THEN 0
  ELSE LET row == CHOOSE r \in rows : TRUE
       IN row.overall + total(rows \ {row})

\* C23: averageOverall is the mean of overall over exactly the players that
\* have a statistics row, rounded to two decimal places (here a number of
\* hundredths h: no other hundredth is nearer to the mean), and 0 when no
\* player has statistics.
C23_AverageOverall ==
  LET h == getPlayersStatistics(DB).value.averageOverall
      n == Cardinality(statistics)
      hundredTimesSum == 100 * total(statistics)
  IN IF n = 0 THEN h = 0
     ELSE /\ 2 * (h * n - hundredTimesSum) <= n
          /\ 2 * (hundredTimesSum - h * n) <= n

\* the report has just been returned of players of whom one has no
\* statistics and one has overall 0, and whose mean is not a whole number
\* of hundredths
C23_Witness ==
  /\ last.op = "getPlayersStatistics"
  /\ \E p \in players : statisticsOf(DB, p.id) = {}
  /\ \E st \in statistics : st.overall = 0
  /\ (100 * total(statistics)) % Cardinality(statistics) # 0
  /\ last.res.value.averageOverall = getPlayersStatistics(DB).value.averageOverall

(***************************************************************************)
(* Storage faults                                                          *)
(***************************************************************************)
GenericError == "Erro interno do servidor"
unanticipated(res) ==
  /\ res.statusCode = 500
  /\ res.error = GenericError

\* C24 as stated: a request that passes the validation while the storage is
\* down is answered 500 with the generic message, on every endpoint, and no
\* response carries the storage error's text.
C24_AsStated ==
  /\ unanticipated(ClubsController_findAll_storageFault(DB).res)
  /\ \A id \in ClubIds :
       id > 0 => unanticipated(ClubsController_findById_storageFault(DB, id).res)
  /\ \A body \in CreateClubInputs :
       trim(body.name) # <<>> =>
         unanticipated(ClubsController_create_storageFault(DB, body).res)
  /\ \A id \in PlayerIds, body \in PlayerUpdateInputs :
       (id > 0 /\ ~suppliedInvalid(body)) =>
         unanticipated(PlayersController_update_storageFault(DB, id, body).res)
  /\ \A id \in PlayerIds :
       id > 0 => unanticipated(PlayersController_delete_storageFault(DB, id).res)
  /\ last.res.error # StorageError

\* C25 as stated: getClubById and getPlayerById fail with an invalid-argument
\* failure for an id that is not positive, return null for a positive id of
\* no record, and fail in another way when the storage is down: the failure
\* for an invalid id is not the failure of a storage fault.
C25_AsStated ==
  /\ \A id \in ClubIds :
       /\ id <= 0 => getClubById(DB, id).status = "threw"
       /\ (id > 0 /\ id \notin clubIds) => getClubById(DB, id) = Null
       /\ id > 0 => getClubById_storageFault(DB, id).status = "threw"
       /\ \A bad \in ClubIds :
            (bad <= 0 /\ id > 0) =>
              getClubById(DB, bad) # getClubById_storageFault(DB, id)
  /\ \A id \in PlayerIds :
       /\ id <= 0 => getPlayerById(DB, id).status = "threw"
       /\ (id > 0 /\ id \notin playerIds) => getPlayerById(DB, id) = Null
       /\ id > 0 => getPlayerById_storageFault(DB, id).status = "threw"
       /\ \A bad \in PlayerIds :
            (bad <= 0 /\ id > 0) =>
              getPlayerById(DB, bad) # getPlayerById_storageFault(DB, id)

(***************************************************************************)
(* Stored texts                                                            *)
(***************************************************************************)
\* a text that is not empty and has no white space at either end
stripped(text) == text # <<>> /\ trim(text) = text
storedTextsStripped(db) ==
  /\ \A c \in db.clubs : stripped(c.name)
  /\ \A p \in db.players :
       stripped(p.name) /\ stripped(p.nationality) /\ stripped(p.position)

C27_AsStated ==
  \A r \in inFlight("PUT /clubs/:id", "update") :
    LET id == requests[r].id
        data == PutClubsData(requests[r])
        o == updateClub_update(DB, id, data)
    IN (/\ id \in clubIds
        /\ \E c \in clubs : c.id # id /\ c.name = data.name) =>
         /\ PutClubs_response(o).statusCode = 400
         /\ o.db.clubs = clubs

(***************************************************************************)
(* Start of the server and seeding                                         *)
(***************************************************************************)
\* C28 as stated: a failure of the seeding does not end the start of the
\* server: the process is never ended by it, createApp returns the
\* application and startServer listens.
C28_AsStated == server.pc # "exited"

seedingClubs == {"club.create"}
seedingPlayers == {"club.findFirst", "player.create", "statistics.create"}

\* C29: the seeding inserts clubs only in a run that found the clubs table
\* empty, and players and statistics only in a run that found the players
\* table empty; a run that finds both tables filled goes from one check to
\* the next and to its end, or fails, and changes no table.
C29_SeedOnlyWhenEmpty ==
  [][/\ (server.pc = "migrateClubs" /\ clubs # {}) =>
          /\ server'.pc \in {"migratePlayers", "exited"}
          /\ UNCHANGED <<clubs, players, statistics>>
     /\ (server.pc = "migratePlayers" /\ players # {}) =>
          /\ server'.pc \in {"$disconnect", "exited"}
          /\ UNCHANGED <<clubs, players, statistics>>
     /\ server'.pc \in seedingClubs => "clubs" \notin server'.skipped
     /\ server'.pc \in seedingPlayers => "players" \notin server'.skipped
     /\ clubs' # clubs => server.pc \in seedingClubs
     /\ (players' # players \/ statistics' # statistics) =>
          server.pc \in seedingPlayers
     /\ ({"clubs", "players"} \subseteq server.skipped /\ server'.pc # "migrateClubs") =>
          UNCHANGED <<clubs, players, statistics>>]_vars

\* the server listens after a run on the store a completed run left: the
\* run found clubs and players, and every seed club and three players with
\* their statistics are there
C29_Witness ==
  /\ server.pc = "listening"
  /\ server.skipped = {"clubs", "players"}
  /\ Cardinality(clubs) = Len(clubsData)
  /\ Cardinality(players) = Len(playersData) - 1
  /\ Cardinality(statistics) = Cardinality(players)

seedComplete ==
  /\ \A i \in DOMAIN clubsData :
       \E c \in clubs : c.id = clubsData[i].id /\ c.name = clubsData[i].name
  /\ \A i \in DOMAIN playersData :
       \A c \in clubs :
         c.name = playersData[i].club =>
           \E p \in players :
             /\ p.name = playersData[i].name
             /\ p.clubId = c.id
             /\ Cardinality(statisticsOf(DB, p.id)) = 1

\* C30 as stated: once a run of the seeding has ended without an error,
\* after any number of runs that a failure ended, every seed club is there
\* and every seed player whose club is there is there with one statistics
\* row.
C30_AsStated ==
  server.pc \in {"$disconnect", "listen", "listening"} => seedComplete
====
